---------------------------- MODULE Spec2Model ----------------------------
(***************************************************************************)
(* A model of the AryFlix backend content layer                            *)
(* (src/aryflix-backend/tmdbAPI.js): the trailer resolver                  *)
(* (getMovieDetailsWithTrailer, getTVDetailsWithTrailer,                   *)
(* getValidTMDBTrailer, searchYouTubeTrailer, findBestYouTubeTrailer,      *)
(* calculateTrailerScore) and the aggregate endpoints with their fan-out   *)
(* and per-item enrichment; and of the ComingSoonTheatre component        *)
(* (src/unnamed/part_001) with its fetch and its four views.               *)
(*                                                                         *)
(* JavaScript strings that the code lower-cases, searches or concatenates  *)
(* are sequences of one-character strings, so that toLowerCase, includes   *)
(* and template concatenation are computed and not assumed.  null is the   *)
(* record Null, a missing field is a field missing from the record.        *)
(***************************************************************************)
EXTENDS Integers, Sequences, FiniteSets, TLC

(***************************************************************************)
(* Bounds of the model.                                                    *)
(***************************************************************************)
\* longest primary video list given to getValidTMDBTrailer on its own
MaxVideos == 3
\* longest list of search results given to findBestYouTubeTrailer on its own
MaxResults == 2
\* longest primary video list of a detail record in a whole request
MaxReqVideos == 1
\* longest items list of one search response in a whole request
MaxRespItems == 1
\* most seasons of a TV detail record
MaxSeasons == 2
\* longest results list of one provider response of an aggregate endpoint
MaxItems == 1
\* the longest list handed to a deduplication called on its own
MaxDedup == 3
\* the longest list of movies, and of TV shows, a search called on its own
\* is answered with
MaxSearch == 11

(***************************************************************************)
(* JavaScript values.                                                      *)
(***************************************************************************)
Null == [tag |-> "null"]

UpperChars == <<"A","B","C","D","E","F","G","H","I","J","K","L","M","N","O","P","Q","R","S","T","U","V","W","X","Y","Z">>
LowerChars == <<"a","b","c","d","e","f","g","h","i","j","k","l","m","n","o","p","q","r","s","t","u","v","w","x","y","z">>
DigitChars == <<"0","1","2","3","4","5","6","7","8","9">>

\* String.prototype.toLowerCase, one character
ToLowerChar(c) ==
    IF \E i \in 1..Len(UpperChars) : UpperChars[i] = c
    THEN LowerChars[CHOOSE i \in 1..Len(UpperChars) : UpperChars[i] = c]
    ELSE c

\* String.prototype.toLowerCase
RECURSIVE ToLowerCase(_)
ToLowerCase(s) ==
    IF Len(s) = 0 THEN <<>> ELSE <<ToLowerChar(Head(s))>> \o ToLowerCase(Tail(s))

\* String.prototype.includes: sub occurs in s as a contiguous substring
Includes(s, sub) ==
    \E i \in 0..(Len(s) - Len(sub)) : \A j \in 1..Len(sub) : s[i + j] = sub[j]

\* the value of one decimal digit character
DigitValue(c) == (CHOOSE i \in 1..Len(DigitChars) : DigitChars[i] = c) - 1

\* the decimal digits of a natural number (Number.prototype.toString)
RECURSIVE NatToString(_)
NatToString(n) ==
    IF n < 10 THEN <<DigitChars[n + 1]>>
    ELSE NatToString(n \div 10) \o <<DigitChars[(n % 10) + 1]>>

(***************************************************************************)
(* String literals of the code.                                            *)
(***************************************************************************)
LIT_official == <<"o","f","f","i","c","i","a","l">>
LIT_main == <<"m","a","i","n">>
LIT_trailer == <<"t","r","a","i","l","e","r">>
LIT_reaction == <<"r","e","a","c","t","i","o","n">>
LIT_review == <<"r","e","v","i","e","w">>
LIT_fan_made == <<"f","a","n"," ","m","a","d","e">>
SUFFIX_official_trailer == <<" ","o","f","f","i","c","i","a","l"," ","t","r","a","i","l","e","r">>
SUFFIX_trailer == <<" ","t","r","a","i","l","e","r">>
URL_PREFIX == <<"h","t","t","p","s",":","/","/","w","w","w",".","y","o","u","t","u","b","e",".","c","o","m","/","w","a","t","c","h","?","v","=">>
officialChannels == <<<<"n","e","t","f","l","i","x">>, <<"h","b","o">>, <<"a","m","a","z","o","n"," ","p","r","i","m","e">>, <<"d","i","s","n","e","y">>, <<"w","a","r","n","e","r">>>>

(***************************************************************************)
(* Provider data the model draws its inputs from.                          *)
(***************************************************************************)
NAME_OfficialTrailer == <<"O","f","f","i","c","i","a","l"," ","T","r","a","i","l","e","r">>
NAME_MainTrailer == <<"M","a","i","n"," ","T","r","a","i","l","e","r">>
NAME_Teaser1 == <<"T","e","a","s","e","r"," ","1">>
TITLE_Movie == <<"M","o","v","i","e"," ","T","i","t","l","e">>
DATE_2021 == <<"2","0","2","1","-","0","6","-","1","5">>
YT_T1 == <<"M","o","v","i","e"," ","T","i","t","l","e"," ","O","f","f","i","c","i","a","l"," ","T","r","a","i","l","e","r">>
YT_T2 == <<"M","O","V","I","E"," ","T","I","T","L","E"," ","t","r","a","i","l","e","r"," ","r","e","a","c","t","i","o","n">>
YT_T3 == <<"M","o","v","i","e"," ","T","i","t","l","e"," ","r","e","a","c","t","i","o","n">>
YT_T4 == <<"F","a","n"," ","M","a","d","e"," ","r","e","v","i","e","w">>
YT_T5 == <<"C","l","i","p">>
YT_D5 == <<"r","e","l","e","a","s","e","d"," ","2","0","2","1">>
CH_Netflix == <<"N","e","t","f","l","i","x">>
CH_Fan == <<"F","a","n"," ","C","h","a","n","n","e","l">>
CH_HBO == <<"H","B","O"," ","M","a","x">>

\* the entries of videos.results of a TMDB detail record: site, type, name
VideoSites == {"YouTube", "Vimeo"}
VideoTypes == {"Trailer", "Teaser", "Featurette"}
VideoNames == {NAME_OfficialTrailer, NAME_MainTrailer, NAME_Teaser1}
\* every type and name on YouTube; elsewhere every type, under the name that
\* the first priority check looks for
VideoKinds ==
    [site : {"YouTube"}, type : VideoTypes, name : VideoNames]
    \cup [site : VideoSites \ {"YouTube"}, type : VideoTypes,
          name : {NAME_OfficialTrailer}]

\* lists of at most n videos; the TMDB key of a video is unique in its list
VideoKey(i) == <<"k", DigitChars[i + 1]>>
VideoLists(kinds, n) ==
    UNION { { [i \in 1..len |-> [key |-> VideoKey(i), site |-> f[i].site,
                                 type |-> f[i].type, name |-> f[i].name]] :
              f \in [1..len -> kinds] } : len \in 0..n }

\* the items of a YouTube search response: id.videoId and the snippet
YTItem(id, t, d, c) ==
    [id |-> [videoId |-> id],
     snippet |-> [title |-> t, description |-> d, channelTitle |-> c]]
YTItems ==
    { YTItem(<<"y","1">>, YT_T1, <<>>, CH_Netflix),
      YTItem(<<"y","2">>, YT_T2, <<>>, CH_Fan),
      YTItem(<<"y","3">>, YT_T3, <<>>, CH_Fan),
      YTItem(<<"y","4">>, YT_T4, YT_D5, CH_HBO),
      YTItem(<<"y","5">>, YT_T5, YT_D5, CH_Fan) }
YTItemLists(items, n) == UNION { [1..len -> items] : len \in 0..n }

\* the year computed at line 821: '' when there is no release date
YearNone == [kind |-> "empty"]
YearOf(n) == [kind |-> "number", n |-> n]
Years == {YearNone, YearOf(2021), YearOf(1999)}

(***************************************************************************)
(* getValidTMDBTrailer (lines 779-804)                                     *)
(***************************************************************************)
\* Array.prototype.filter
Filter(s, P(_)) ==
    LET F[i \in 0..Len(s)] ==
            IF i = 0 THEN <<>>
            ELSE IF P(s[i]) THEN Append(F[i - 1], s[i]) ELSE F[i - 1]
    IN  F[Len(s)]

\* Array.prototype.find: the first element satisfying P, Null if none
Find(s, P(_)) ==
    IF \E i \in 1..Len(s) : P(s[i])
    THEN s[CHOOSE i \in 1..Len(s) : P(s[i]) /\ \A j \in 1..(i - 1) : ~P(s[j])]
    ELSE Null

\* mutant: the teaser checks placed before the trailer checks
PriorityCheck_TeasersFirst(k, video) ==
    CASE k = 1 -> video.type = "Teaser" /\ Includes(ToLowerCase(video.name), LIT_official)
      [] k = 2 -> video.type = "Teaser"
      [] k = 3 -> video.type = "Trailer" /\ Includes(ToLowerCase(video.name), LIT_official)
      [] k = 4 -> video.type = "Trailer" /\ Includes(ToLowerCase(video.name), LIT_main)
      [] k = 5 -> video.type = "Trailer"

\* the five priority checks of trailerPriorities, in order
PriorityCheck(k, video) ==
    CASE k = 1 -> video.type = "Trailer" /\ Includes(ToLowerCase(video.name), LIT_official)
      [] k = 2 -> video.type = "Trailer" /\ Includes(ToLowerCase(video.name), LIT_main)
      [] k = 3 -> video.type = "Trailer"
      [] k = 4 -> video.type = "Teaser" /\ Includes(ToLowerCase(video.name), LIT_official)
      [] k = 5 -> video.type = "Teaser"
NumPriorities == 5

\* mutant: the site filter of line 783 left out
IsYouTube_AnySite(video) == TRUE

IsYouTube(video) == video.site = "YouTube"

\* the for loop over trailerPriorities from level k, then the last resort
RECURSIVE TryPriorities(_, _)
TryPriorities(youtubeVideos, k) ==
    IF k > NumPriorities THEN youtubeVideos[1]
    ELSE LET priorityCheck(v) == PriorityCheck(k, v)
             foundTrailer == Find(youtubeVideos, priorityCheck)
         IN  IF foundTrailer # Null THEN foundTrailer
             ELSE TryPriorities(youtubeVideos, k + 1)

getValidTMDBTrailer(videos) ==
    IF Len(videos) = 0 THEN Null
    ELSE LET youtubeVideos == Filter(videos, IsYouTube)
         IN  IF Len(youtubeVideos) = 0 THEN Null
             ELSE TryPriorities(youtubeVideos, 1)

(***************************************************************************)
(* calculateTrailerScore (lines 890-922), findBestYouTubeTrailer (868-881) *)
(***************************************************************************)
\* JavaScript truthiness of the year: '' and 0 are falsy
YearTruthy(year) == year.kind = "number" /\ year.n # 0

\* year.toString(), and the year inside a template literal
YearToString(year) == IF year.kind = "number" THEN NatToString(year.n) ELSE <<>>

\* officialChannels.some(channel => channelName.includes(channel))
IsOfficialChannel(channelName) ==
    \E i \in 1..Len(officialChannels) : Includes(channelName, officialChannels[i])

calculateTrailerScore(video, originalTitle, year) ==
    LET title == ToLowerCase(video.snippet.title)
        description == ToLowerCase(video.snippet.description)
        channelName == ToLowerCase(video.snippet.channelTitle)
        originalTitleLower == ToLowerCase(originalTitle)
    IN  (IF Includes(title, originalTitleLower) THEN 10 ELSE 0)
      + (IF YearTruthy(year) /\ (Includes(title, YearToString(year))
                                 \/ Includes(description, YearToString(year)))
         THEN 5 ELSE 0)
      + (IF Includes(title, LIT_official) THEN 8 ELSE 0)
      + (IF Includes(title, LIT_trailer) THEN 6 ELSE 0)
      + (IF IsOfficialChannel(channelName) THEN 10 ELSE 0)
      - (IF Includes(title, LIT_reaction) THEN 10 ELSE 0)
      - (IF Includes(title, LIT_review) THEN 10 ELSE 0)
      - (IF Includes(title, LIT_fan_made) THEN 15 ELSE 0)

\* Array.prototype.sort with comparator Cmp: a stable sort (ECMAScript 2019),
\* each element inserted behind the elements that do not sort after it
SortWith(s, Cmp(_, _)) ==
    LET Insert(sorted, x) ==
            LET k == CHOOSE k \in 0..Len(sorted) :
                        /\ \A j \in 1..k : Cmp(sorted[j], x) <= 0
                        /\ k < Len(sorted) => Cmp(sorted[k + 1], x) > 0
            IN  SubSeq(sorted, 1, k) \o <<x>> \o SubSeq(sorted, k + 1, Len(sorted))
        S[i \in 0..Len(s)] == IF i = 0 THEN <<>> ELSE Insert(S[i - 1], s[i])
    IN  S[Len(s)]

\* videos.map(video => ({video, score}))
ScoreVideos(videos, originalTitle, year) ==
    [i \in 1..Len(videos) |->
        [video |-> videos[i],
         score |-> calculateTrailerScore(videos[i], originalTitle, year)]]

\* mutant: results scoring zero kept by the filter of line 875
PositiveScore_ZeroKept(item) == item.score >= 0

PositiveScore(item) == item.score > 0

ByScoreDescending(a, b) == b.score - a.score

findBestYouTubeTrailer(videos, originalTitle, year) ==
    IF Len(videos) = 0 THEN Null
    ELSE LET scoredVideos ==
                 SortWith(Filter(ScoreVideos(videos, originalTitle, year),
                                 PositiveScore),
                          ByScoreDescending)
         IN  IF Len(scoredVideos) > 0 THEN scoredVideos[1].video ELSE Null

(***************************************************************************)
(* searchYouTubeTrailer (lines 813-857): the parts that are pure           *)
(***************************************************************************)
\* new Date(releaseDate).getFullYear() for an ISO date well inside its year:
\* the number written by the first four characters
GetFullYear(releaseDate) ==
    1000 * DigitValue(releaseDate[1]) + 100 * DigitValue(releaseDate[2])
    + 10 * DigitValue(releaseDate[3]) + DigitValue(releaseDate[4])

\* line 821: releaseDate ? new Date(releaseDate).getFullYear() : '', for the
\* release date field of a detail record (an undefined date is a missing field)
YearFromDate(d, field) ==
    IF field \notin DOMAIN d \/ d[field] = <<>> THEN YearNone
    ELSE YearOf(GetFullYear(d[field]))

\* mutant: the queries without the year sent first
Queries_GenericFirst(title, year) ==
    << title \o SUFFIX_official_trailer,
       title \o SUFFIX_trailer,
       title \o <<" ">> \o YearToString(year) \o SUFFIX_official_trailer,
       title \o <<" ">> \o YearToString(year) \o SUFFIX_trailer >>

\* lines 824-829: the four queries, most specific first
Queries(title, year) ==
    << title \o <<" ">> \o YearToString(year) \o SUFFIX_official_trailer,
       title \o <<" ">> \o YearToString(year) \o SUFFIX_trailer,
       title \o SUFFIX_official_trailer,
       title \o SUFFIX_trailer >>

\* lines 845-848: the trailer taken from one response, Null if none
BestOfResponse(response, title, year) ==
    IF "items" \in DOMAIN response.data /\ Len(response.data.items) > 0
    THEN findBestYouTubeTrailer(response.data.items, title, year)
    ELSE Null

\* process.env: YOUTUBE_API_KEY undefined, '' or a key
Environments ==
    { [TMDB_API_KEY |-> <<"T">>],
      [TMDB_API_KEY |-> <<"T">>, YOUTUBE_API_KEY |-> <<>>],
      [TMDB_API_KEY |-> <<"T">>, YOUTUBE_API_KEY |-> <<"K">>] }

\* mutant: the key check of line 815 left out
KeyTruthy_NotChecked(e) == TRUE

\* line 6 and line 815: the truthiness of YOUTUBE_API_KEY
KeyTruthy(e) == "YOUTUBE_API_KEY" \in DOMAIN e /\ e.YOUTUBE_API_KEY # <<>>

(***************************************************************************)
(* State.                                                                  *)
(***************************************************************************)
VARIABLES
    env,             \* process.env, read at lines 5-6                      
    pc,              \* where the request stands: idle, detail, season,
                     \* search (each an await), done (returned), failed (threw)
    kind,            \* "movie": getMovieDetailsWithTrailer, "tv": getTVDetailsWithTrailer
    data,            \* movieData / tvData, Null before the detail response
    seasonIdx,       \* index into tvData.seasons of the season being fetched
    tmdbTrailer,     \* the result of getValidTMDBTrailer, Unset before the call
    issued,          \* the queries sent to youtubeApi.get('/search'), in order
    lastResp,        \* the last search response received (or the error raised)
    thrown,          \* the await whose rejection the request rethrew, Null if none
    fnArgs,          \* the arguments of a helper function called on its own
    fnResult,        \* its return value, Unset before the call
    ep,              \* the aggregate endpoint called, "none" before the call
    apc,             \* where it stands: idle, sources (await Promise.all of
                     \* the provider calls), details (await Promise.all of the
                     \* per-item detail fetches), done (returned), failed (threw)
    calls,           \* the provider calls of the fan-out, in the order issued:
                     \* pending, ok with the results, or failed
    held,            \* locals computed before the details await and used after
    items,           \* the list whose items are enriched (combinedShows / tvShowsRaw)
    fetched,         \* per item: its detail request pending, ok or failed
    detailed,        \* per item: what its async callback resolved to, Unset before
    result,          \* the list returned, Unset before the return
    mounted,         \* ComingSoonTheatre: whether the mount effect has run
    upcomingMovies,  \* its state upcomingMovies
    loading,         \* its state loading
    error,           \* its state error: Null or a string
    inflight,        \* the calls of fetchUpcomingMovies that have not returned:
                     \* each at its await of fetch or of response.json()
    outcomes         \* how the calls that returned ended, in order

tvars == <<env, pc, kind, data, seasonIdx, tmdbTrailer, issued,
           lastResp, thrown>>
fvars == <<fnArgs, fnResult>>
avars == <<ep, apc, calls, held, items, fetched, detailed, result>>
cvars == <<mounted, upcomingMovies, loading, error, inflight, outcomes>>
vars == <<tvars, fvars, avars, cvars>>

Unset == [tag |-> "unset"]

TrailerIdle ==
    /\ pc = "idle" /\ kind = "none" /\ data = Null /\ seasonIdx = 0
    /\ tmdbTrailer = Unset /\ issued = <<>> /\ lastResp = Unset /\ thrown = Null
HelperIdle == fnArgs = Unset /\ fnResult = Unset
AggregateIdle ==
    /\ ep = "none" /\ apc = "idle" /\ calls = <<>> /\ held = Unset
    /\ items = <<>> /\ fetched = <<>> /\ detailed = <<>> /\ result = Unset
\* part_001 lines 12-16: the initial values of useState
ComponentIdle ==
    /\ mounted = FALSE /\ upcomingMovies = <<>> /\ loading = TRUE
    /\ error = Null /\ inflight = <<>> /\ outcomes = <<>>

(***************************************************************************)
(* getValidTMDBTrailer and findBestYouTubeTrailer called on their own.     *)
(***************************************************************************)
InitSelect ==
    /\ env = [TMDB_API_KEY |-> <<"T">>] /\ TrailerIdle /\ ComponentIdle
    /\ fnArgs \in { [videos |-> v] : v \in VideoLists(VideoKinds, MaxVideos) }
    /\ fnResult = Unset
    /\ AggregateIdle

CallGetValidTMDBTrailer ==
    /\ fnResult = Unset
    /\ fnResult' = getValidTMDBTrailer(fnArgs.videos)
    /\ UNCHANGED <<tvars, avars, cvars, fnArgs>>

SpecSelect == InitSelect /\ [][CallGetValidTMDBTrailer]_vars

InitScore ==
    /\ env = [TMDB_API_KEY |-> <<"T">>] /\ TrailerIdle /\ ComponentIdle
    /\ fnArgs \in { [videos |-> v, originalTitle |-> TITLE_Movie, year |-> y] :
                    v \in YTItemLists(YTItems, MaxResults), y \in Years }
    /\ fnResult = Unset
    /\ AggregateIdle

CallFindBestYouTubeTrailer ==
    /\ fnResult = Unset
    /\ fnResult' = findBestYouTubeTrailer(fnArgs.videos, fnArgs.originalTitle,
                                          fnArgs.year)
    /\ UNCHANGED <<tvars, avars, cvars, fnArgs>>

SpecScore == InitScore /\ [][CallFindBestYouTubeTrailer]_vars

(***************************************************************************)
(* getMovieDetailsWithTrailer (637-691), getTVDetailsWithTrailer (700-768) *)
(* with searchYouTubeTrailer (813-857), one action per await.              *)
(***************************************************************************)
\* the detail records the provider may answer with
ReqVideoKinds ==
    { [site |-> "YouTube", type |-> "Trailer", name |-> NAME_OfficialTrailer],
      [site |-> "YouTube", type |-> "Featurette", name |-> NAME_Teaser1],
      [site |-> "Vimeo", type |-> "Trailer", name |-> NAME_OfficialTrailer],
      [site |-> "Vimeo", type |-> "Teaser", name |-> NAME_Teaser1] }
VideosFields ==
    {Null} \cup { [results |-> v] : v \in VideoLists(ReqVideoKinds, MaxReqVideos) }
MovieRecords ==
    { [title |-> TITLE_Movie, videos |-> v] : v \in VideosFields }
    \cup { [title |-> TITLE_Movie, release_date |-> DATE_2021, videos |-> v] :
           v \in VideosFields }
SeasonLists ==
    { [i \in 1..len |-> [season_number |-> first + i - 1]] :
      first \in {0, 1}, len \in 0..MaxSeasons }
TVRecords ==
    { [name |-> TITLE_Movie, videos |-> v] : v \in VideosFields }
    \cup { [name |-> TITLE_Movie, first_air_date |-> DATE_2021, videos |-> v,
            seasons |-> ss] : v \in VideosFields, ss \in SeasonLists }

\* the search responses the secondary provider may answer with
ReqYTItems ==
    { YTItem(<<"y","1">>, YT_T1, <<>>, CH_Netflix),
      YTItem(<<"y","3">>, YT_T3, <<>>, CH_Fan),
      YTItem(<<"y","5">>, YT_T5, YT_D5, CH_Fan) }
SearchResponses ==
    { [data |-> [kind |-> "youtube#searchListResponse"]] }
    \cup { [data |-> [kind |-> "youtube#searchListResponse", items |-> it]] :
           it \in YTItemLists(ReqYTItems, MaxRespItems) }
SearchError == [error |-> "youtube request failed"]

\* movieData.title / tvData.name, movieData.release_date / tvData.first_air_date
TitleOf(d) == IF kind = "movie" THEN d.title ELSE d.name
YearOfRecord(d) ==
    IF kind = "movie" THEN YearFromDate(d, "release_date")
    ELSE YearFromDate(d, "first_air_date")

\* movieData.videos?.results || []
VideoResults(d) == IF d.videos = Null THEN <<>> ELSE d.videos.results

\* lines 658-664: the trailer object built from a TMDB video
TMDBTrailerObject(t) ==
    [source |-> "tmdb", key |-> t.key, name |-> t.name, site |-> t.site,
     url |-> URL_PREFIX \o t.key]

\* lines 673-679: the trailer object built from a search result
YouTubeTrailerObject(y) ==
    [source |-> "youtube", key |-> y.id.videoId, name |-> y.snippet.title,
     site |-> "YouTube", url |-> URL_PREFIX \o y.id.videoId]

\* mutant: the else branch of lines 680-683 leaves the field unset
WithTrailer_NullOmitted(d, value) ==
    IF value = Null THEN d
    ELSE [f \in DOMAIN d \cup {"trailer"} |-> IF f = "trailer" THEN value ELSE d[f]]

\* movieData.trailer = value
WithTrailer(d, value) ==
    [f \in DOMAIN d \cup {"trailer"} |-> IF f = "trailer" THEN value ELSE d[f]]

\* mutant: the search of line 669 started whatever the primary lookup found
ResolveTrailer_AlwaysSearch(d) ==
    LET t == getValidTMDBTrailer(VideoResults(d))
    IN  /\ tmdbTrailer' = t
        /\ IF ~KeyTruthy(env)
           THEN /\ data' = WithTrailer(d, IF t # Null THEN TMDBTrailerObject(t) ELSE Null)
                /\ pc' = "done"
                /\ issued' = issued
           ELSE /\ data' = d
                /\ pc' = "search"
                /\ issued' = <<Queries(TitleOf(d), YearOfRecord(d))[1]>>

\* lines 653-686: from the trailer selection to the return, or to the await of
\* the first search request (searchYouTubeTrailer up to line 835)
ResolveTrailer(d) ==
    LET t == getValidTMDBTrailer(VideoResults(d))
    IN  /\ tmdbTrailer' = t
        /\ IF t # Null
           THEN /\ data' = WithTrailer(d, TMDBTrailerObject(t))
                /\ pc' = "done"
                /\ issued' = issued
           ELSE IF ~KeyTruthy(env)
           THEN /\ data' = WithTrailer(d, Null)
                /\ pc' = "done"
                /\ issued' = issued
           ELSE /\ data' = d
                /\ pc' = "search"
                /\ issued' = <<Queries(TitleOf(d), YearOfRecord(d))[1]>>

\* the index of the first season from i on that is not a special, 0 if none
NextSeason(d, i) ==
    IF "seasons" \in DOMAIN d
       /\ \E j \in i..Len(d.seasons) : d.seasons[j].season_number # 0
    THEN CHOOSE j \in i..Len(d.seasons) :
            /\ d.seasons[j].season_number # 0
            /\ \A h \in i..(j - 1) : d.seasons[h].season_number = 0
    ELSE 0

StartMovie ==
    /\ pc = "idle"
    /\ pc' = "detail" /\ kind' = "movie"
    /\ UNCHANGED <<env, data, seasonIdx, tmdbTrailer, issued,
                   lastResp, thrown, fvars, avars, cvars>>

StartTV ==
    /\ pc = "idle"
    /\ pc' = "detail" /\ kind' = "tv"
    /\ UNCHANGED <<env, data, seasonIdx, tmdbTrailer, issued,
                   lastResp, thrown, fvars, avars, cvars>>

\* the detail request rejects: lines 687-690 / 764-767 rethrow
DetailFails ==
    /\ pc = "detail"
    /\ pc' = "failed" /\ thrown' = [await |-> "detail"]
    /\ UNCHANGED <<env, kind, data, seasonIdx, tmdbTrailer, issued,
                   lastResp, fvars, avars, cvars>>

MovieDetailOk ==
    /\ pc = "detail" /\ kind = "movie"
    /\ \E d \in MovieRecords : ResolveTrailer(d)
    /\ UNCHANGED <<env, kind, seasonIdx, lastResp, thrown, fvars, avars, cvars>>

\* lines 711-728: the detail record arrives; seasons are fetched one at a time
TVDetailOk ==
    /\ pc = "detail" /\ kind = "tv"
    /\ \E d \in TVRecords :
          IF NextSeason(d, 1) # 0
          THEN /\ data' = d /\ pc' = "season" /\ seasonIdx' = NextSeason(d, 1)
               /\ UNCHANGED <<tmdbTrailer, issued>>
          ELSE /\ ResolveTrailer(d) /\ seasonIdx' = seasonIdx
    /\ UNCHANGED <<env, kind, lastResp, thrown, fvars, avars, cvars>>

\* line 718: a season response arrives (its runtimes do not reach the trailer)
SeasonOk ==
    /\ pc = "season"
    /\ IF NextSeason(data, seasonIdx + 1) # 0
       THEN /\ seasonIdx' = NextSeason(data, seasonIdx + 1)
            /\ UNCHANGED <<pc, data, tmdbTrailer, issued>>
       ELSE /\ ResolveTrailer(data) /\ seasonIdx' = seasonIdx
    /\ UNCHANGED <<env, kind, lastResp, thrown, fvars, avars, cvars>>

\* line 718 rejects: lines 764-767 rethrow
SeasonFails ==
    /\ pc = "season"
    /\ pc' = "failed" /\ thrown' = [await |-> "season"]
    /\ UNCHANGED <<env, kind, data, seasonIdx, tmdbTrailer, issued,
                   lastResp, fvars, avars, cvars>>

\* lines 835-852: a search response arrives: return the best trailer, or send
\* the next query, or return null after the last one
SearchResponds ==
    /\ pc = "search"
    /\ \E response \in SearchResponses :
          LET title == TitleOf(data)
              year == YearOfRecord(data)
              bestTrailer == BestOfResponse(response, title, year)
          IN  /\ lastResp' = response
              /\ IF bestTrailer # Null
                 THEN /\ data' = WithTrailer(data, YouTubeTrailerObject(bestTrailer))
                      /\ pc' = "done" /\ issued' = issued
                 ELSE IF Len(issued) < Len(Queries(title, year))
                 THEN /\ issued' = Append(issued, Queries(title, year)[Len(issued) + 1])
                      /\ UNCHANGED <<pc, data>>
                 ELSE /\ data' = WithTrailer(data, Null)
                      /\ pc' = "done" /\ issued' = issued
    /\ UNCHANGED <<env, kind, seasonIdx, tmdbTrailer, thrown, fvars, avars, cvars>>

\* mutant: the catch of lines 853-856 missing, the rejection reaches
\* the catch of lines 687-690 / 764-767
SearchFails_Rethrown ==
    /\ pc = "search"
    /\ lastResp' = SearchError
    /\ pc' = "failed" /\ thrown' = [await |-> "search"]
    /\ UNCHANGED <<env, kind, data, seasonIdx, tmdbTrailer, issued, fvars, avars, cvars>>

\* mutant: the try/catch inside the loop of lines 832-850, so that a rejected
\* query is skipped and the next one is sent
SearchFails_ContinuesCascade ==
    /\ pc = "search"
    /\ lastResp' = SearchError
    /\ IF Len(issued) < Len(Queries(TitleOf(data), YearOfRecord(data)))
       THEN /\ issued' = Append(issued,
                    Queries(TitleOf(data), YearOfRecord(data))[Len(issued) + 1])
            /\ UNCHANGED <<pc, data>>
       ELSE /\ data' = WithTrailer(data, Null)
            /\ pc' = "done" /\ issued' = issued
    /\ UNCHANGED <<env, kind, seasonIdx, tmdbTrailer, thrown, fvars, avars, cvars>>

\* line 835 rejects: lines 853-856 catch it and return null
SearchFails ==
    /\ pc = "search"
    /\ lastResp' = SearchError
    /\ data' = WithTrailer(data, Null)
    /\ pc' = "done"
    /\ UNCHANGED <<env, kind, seasonIdx, tmdbTrailer, issued, thrown,
                   fvars, avars, cvars>>

InitTrailer ==
    /\ env \in Environments
    /\ TrailerIdle /\ ComponentIdle /\ HelperIdle /\ AggregateIdle

NextTrailer ==
    \/ StartMovie \/ StartTV \/ DetailFails \/ MovieDetailOk \/ TVDetailOk
    \/ SeasonOk \/ SeasonFails \/ SearchResponds \/ SearchFails

SpecTrailer == InitTrailer /\ [][NextTrailer]_vars

(***************************************************************************)
(* The aggregate endpoints: getPopularTVShows (108-151), getUpcomingMovies *)
(* (166-263), getStreamingPlatformContent (402-455), getWatchAtHomeContent *)
(* (940-1023), searchMoviesAndTV (1028-1087).  Each issues its provider    *)
(* calls at once and awaits Promise.all of them: the await resumes when    *)
(* every call has succeeded, or as soon as one call is rejected.           *)
(***************************************************************************)
Endpoints ==
    {"getPopularTVShows", "getUpcomingMovies", "getStreamingPlatformContent",
     "getWatchAtHomeContent", "searchMoviesAndTV"}

\* the number of provider calls in the Promise.all of each endpoint
NumCalls(e) ==
    CASE e = "getPopularTVShows" -> 2
      [] e = "getUpcomingMovies" -> 4
      [] e = "getStreamingPlatformContent" -> 2
      [] e = "getWatchAtHomeContent" -> 3
      [] e = "searchMoviesAndTV" -> 2

\* line 32
EXCLUDED_GENRE_IDS == <<10767, 10763, 10764>>

\* mutant: the slice left out
Take_All(s, n) == s

\* Array.prototype.slice(0, n)
Take(s, n) == SubSeq(s, 1, IF Len(s) < n THEN Len(s) ELSE n)

\* { ...a, ...b }: the fields of b over those of a
Spread(a, b) ==
    [f \in DOMAIN a \cup DOMAIN b |-> IF f \in DOMAIN b THEN b[f] ELSE a[f]]

\* arr.map(item => ({ ...item, media_type: type }))
addType(arr, type) ==
    [i \in 1..Len(arr) |-> Spread(arr[i], [media_type |-> type])]

\* shuffleArray (lines 925-932): Math.random may produce any permutation
Shuffles(array) ==
    { [i \in 1..Len(array) |-> array[p[i]]] :
      p \in { q \in [1..Len(array) -> 1..Len(array)] :
              \A i, j \in 1..Len(array) : q[i] = q[j] => i = j } }

\* lists of at most n items of a domain
ItemLists(domain, n) == UNION { [1..len -> domain] : len \in 0..n }

\* what the provider lists: TV shows, movies and anime of the discover,
\* trending and popular endpoints
TVShows ==
    { [id |-> 1, name |-> "Drama", genre_ids |-> <<18>>],
      [id |-> 2, name |-> "Reality", genre_ids |-> <<10764, 18>>] }
HomeMovies ==
    { [id |-> 1, title |-> "Film", genre_ids |-> <<28>>],
      [id |-> 3, title |-> "Doc Film", genre_ids |-> <<99>>] }
AnimeShows ==
    { [id |-> 2, name |-> "Anime", genre_ids |-> <<16>>, original_language |-> "ja"],
      [id |-> 4, name |-> "Dub", genre_ids |-> <<16>>, original_language |-> "en"] }
DATE_Today == <<"2","0","2","6","-","1","1","-","0","1">>
DATE_Future == <<"2","0","2","6","-","1","2","-","2","5">>
DATE_Past == <<"2","0","2","6","-","1","0","-","3","1">>
UpcomingMovies ==
    { [id |-> 1, title |-> "Soon", release_date |-> DATE_Future, popularity |-> 50],
      [id |-> 2, title |-> "Undated"],
      [id |-> 3, title |-> "Out", release_date |-> DATE_Past, popularity |-> 90],
      [id |-> 1, title |-> "Soon", release_date |-> DATE_Today, popularity |-> 70] }

\* popularity and vote_average are held in tenths (1000 is 1000/10 = 100.0),
\* the scores computed from them in thousandths
StreamMovies ==
    { [id |-> 1, title |-> "Film", vote_average |-> 80, popularity |-> 100],
      [id |-> 3, title |-> "Hit", vote_average |-> 70, popularity |-> 1000] }
StreamShows ==
    { [id |-> 2, name |-> "Drama", vote_average |-> 90, popularity |-> 27],
      [id |-> 4, name |-> "Series", vote_average |-> 75, popularity |-> 500] }
TITLE_Avatar == <<"A","v","a","t","a","r">>
TITLE_AvatarWater == <<"A","v","a","t","a","r",":"," ","T","h","e"," ","W","a","y"," ","o","f"," ","W","a","t","e","r">>
TITLE_Airbender == <<"T","h","e"," ","L","a","s","t"," ","A","i","r","b","e","n","d","e","r">>
TITLE_Avatars == <<"A","v","a","t","a","r","s">>
TITLE_AVATAR == <<"A","V","A","T","A","R">>
TITLE_Avatar2 == <<"A","v","a","t","a","r"," ","2">>
TITLE_TheAvatar == <<"T","h","e"," ","A","v","a","t","a","r">>
TITLE_Airbenders == <<"A","i","r","b","e","n","d","e","r","s">>
TITLE_AvatarAvatar == <<"A","v","a","t","a","r"," ","A","v","a","t","a","r">>
QUERY_the_avatar == <<"t","h","e"," ","a","v","a","t","a","r">>
QUERY_avatar == <<"a","v","a","t","a","r">>
PATH_Poster == <<"/","a",".","j","p","g">>
IMAGE_BASE == <<"h","t","t","p","s",":","/","/","i","m","a","g","e",".","t","m","d","b",".","o","r","g","/","t","/","p","/","w","5","0","0">>
SearchMovies ==
    { [id |-> 1, title |-> TITLE_Avatar, popularity |-> 1000, vote_average |-> 76,
       vote_count |-> 500, poster_path |-> PATH_Poster],
      [id |-> 2, title |-> TITLE_AvatarWater, popularity |-> 5, vote_average |-> 77,
       vote_count |-> 100] }
SearchShows ==
    { [id |-> 3, name |-> TITLE_Airbender, first_air_date |-> DATE_Past,
       popularity |-> 500, vote_average |-> 80, vote_count |-> 200],
      [id |-> 4, name |-> TITLE_Avatars, poster_path |-> PATH_Poster] }

\* the results lists call i of endpoint e may answer with
SourceLists(e, i) ==
    CASE e = "getPopularTVShows" -> ItemLists(TVShows, MaxItems)
      [] e = "getUpcomingMovies" -> ItemLists(UpcomingMovies, MaxItems)
      [] e = "getStreamingPlatformContent" ->
            ItemLists(IF i = 1 THEN StreamMovies ELSE StreamShows, MaxItems)
      [] e = "getWatchAtHomeContent" ->
            ItemLists(IF i = 1 THEN HomeMovies ELSE IF i = 2 THEN TVShows
                      ELSE AnimeShows, MaxItems)
      [] e = "searchMoviesAndTV" ->
            ItemLists(IF i = 1 THEN SearchMovies ELSE SearchShows, MaxItems)

\* the detail record of /tv/{id}: the genres as objects
TVDetail(show) ==
    [id |-> show.id, name |-> show.name, number_of_seasons |-> 1,
     genres |-> [i \in 1..Len(show.genre_ids) |-> [id |-> show.genre_ids[i]]]]

\* show.genres.some(genre => EXCLUDED_GENRE_IDS.includes(genre.id))
HasExcludedGenre(show) ==
    \E i \in 1..Len(show.genres) :
        \E j \in 1..Len(EXCLUDED_GENRE_IDS) : show.genres[i].id = EXCLUDED_GENRE_IDS[j]

\* lines 139-143: show.genres && !show.genres.some(...)
KeepPopularShow(show) == "genres" \in DOMAIN show /\ ~HasExcludedGenre(show)

\* line 993: !(item.genres && item.genres.some(...))
KeepHomeShow(item) == ~("genres" \in DOMAIN item /\ HasExcludedGenre(item))

\* lines 116-123: combinedShows of getPopularTVShows
CombinedShows(trendingResults, popularResults) ==
    LET trendingShows == Take(trendingResults, 10)
        NotTrending(show) ==
            ~\E i \in 1..Len(trendingShows) : trendingShows[i].id = show.id
        popularShows == Take(Filter(popularResults, NotTrending), 10)
    IN  Take(trendingShows \o popularShows, 20)

\* lines 138-146: the list getPopularTVShows returns
PopularTVResult(detailedShows) == Take(Filter(detailedShows, KeepPopularShow), 20)

\* JavaScript's order of the characters of an ISO date
CharOrder(c) ==
    CHOOSE i \in 1..11 : <<"-","0","1","2","3","4","5","6","7","8","9">>[i] = c

\* a >= b on strings: the first differing character decides, then the length
RECURSIVE StringGeq(_, _)
StringGeq(a, b) ==
    IF b = <<>> THEN TRUE
    ELSE IF a = <<>> THEN FALSE
    ELSE IF Head(a) = Head(b) THEN StringGeq(Tail(a), Tail(b))
    ELSE CharOrder(Head(a)) > CharOrder(Head(b))

\* the deduplication keeping the last occurrence of each movie id
UniqueMovies_LastKept(allMovies) ==
    LET LastOfItsId(i) ==
            \A j \in (i + 1)..Len(allMovies) : allMovies[j].id # allMovies[i].id
        U[i \in 0..Len(allMovies)] ==
            IF i = 0 THEN <<>>
            ELSE IF LastOfItsId(i) THEN Append(U[i - 1], allMovies[i]) ELSE U[i - 1]
    IN  U[Len(allMovies)]

\* lines 224-226: the first occurrence of each movie id
UniqueMovies(allMovies) ==
    LET FirstOfItsId(i) == \A j \in 1..(i - 1) : allMovies[j].id # allMovies[i].id
        U[i \in 0..Len(allMovies)] ==
            IF i = 0 THEN <<>>
            ELSE IF FirstOfItsId(i) THEN Append(U[i - 1], allMovies[i]) ELSE U[i - 1]
    IN  U[Len(allMovies)]

\* movie.popularity || 0
PopularityOrZero(movie) == IF "popularity" \in DOMAIN movie THEN movie.popularity ELSE 0

ByPopularityDescending(a, b) == PopularityOrZero(b) - PopularityOrZero(a)

\* lines 213-258: the list getUpcomingMovies returns
UpcomingResult(p1, p2, d1, d2, todayString) ==
    LET allMovies == p1 \o p2 \o d1 \o d2
        uniqueMovies == UniqueMovies(allMovies)
        IsUpcoming(movie) ==
            IF "release_date" \notin DOMAIN movie \/ movie.release_date = <<>>
            THEN TRUE
            ELSE StringGeq(movie.release_date, todayString)
        stillUpcoming == Filter(uniqueMovies, IsUpcoming)
    IN  Take(SortWith(stillUpcoming, ByPopularityDescending), 20)

\* lines 1004-1013: the first occurrence of each media_type-id key
UniqueContent(shuffledContent) ==
    LET Key(item) == <<item.media_type, item.id>>
        U[i \in 0..Len(shuffledContent)] ==
            IF i = 0 THEN <<>>
            ELSE IF \A j \in 1..(i - 1) : Key(shuffledContent[j]) # Key(shuffledContent[i])
                 THEN Append(U[i - 1], shuffledContent[i])
                 ELSE U[i - 1]
    IN  U[Len(shuffledContent)]

IsJapanese(item) == item.original_language = "ja"

\* lines 992-1018: the lists getWatchAtHomeContent may return, given the
\* shuffled movies, the enriched TV shows and the anime response
WatchAtHomeResults(movies, tvShowsDetailed, animeResults) ==
    LET kept == Filter(tvShowsDetailed, KeepHomeShow)
        japanese == Filter(addType(animeResults, "anime"), IsJapanese)
    IN  UNION { UNION { { Take(UniqueContent(shuffledContent), 40) :
                          shuffledContent \in
                              Shuffles(movies \o Take(tvShows, 15) \o Take(anime, 10)) } :
                        anime \in Shuffles(japanese) } :
                tvShows \in Shuffles(kept) }

\* Math.log of a number held in tenths, in thousandths, on the numbers the
\* provider data of the model holds
LnMilli(tenths) ==
    CASE tenths = 1 -> -2303
      [] tenths = 5 -> -693
      [] tenths = 9 -> -105
      [] tenths = 10 -> 0
      [] tenths = 27 -> 993
      [] tenths = 100 -> 2303
      [] tenths = 500 -> 3912
      [] tenths = 1000 -> 4605

\* lines 436-437: vote_average * 0.6 + Math.log(popularity) * 0.4, in
\* ten-thousandths
StreamingScore(item) == item.vote_average * 600 + LnMilli(item.popularity) * 4

ByStreamingScoreDescending(a, b) == StreamingScore(b) - StreamingScore(a)

\* lines 429-449: the list getStreamingPlatformContent returns
StreamingResult(movieResults, tvResults) ==
    LET combinedContent == addType(movieResults, "movie") \o addType(tvResults, "tv")
    IN  Take(SortWith(combinedContent, ByStreamingScoreDescending), 20)

\* String.prototype.startsWith
StartsWith(s, prefix) ==
    Len(prefix) <= Len(s) /\ \A j \in 1..Len(prefix) : s[j] = prefix[j]

\* String.prototype.split(/\s+/): the pieces between the runs of white space,
\* the empty pieces at either end included
RECURSIVE SplitRest(_, _, _, _)
SplitRest(s, afterSpace, done, cur) ==
    IF s = <<>> THEN Append(done, cur)
    ELSE IF Head(s) = " "
         THEN IF afterSpace
              THEN SplitRest(Tail(s), TRUE, done, cur)
              ELSE SplitRest(Tail(s), TRUE, Append(done, cur), <<>>)
         ELSE SplitRest(Tail(s), FALSE, done, Append(cur, Head(s)))

SplitWhitespace(s) == SplitRest(s, FALSE, <<>>, <<>>)

\* a number that is undefined (a field the item does not have), held apart
\* from every number the provider sends
Undefined == -1

\* the truthiness of a number: false for undefined and for 0
Truthy(n) == n # Undefined /\ n # 0

\* line 1143: Math.log(popularity || 1) * 50, in thousandths
PopularityScore(popularity) ==
    LnMilli(IF Truthy(popularity) THEN popularity ELSE 10) * 50

\* the vote test written as !(voteCount <= 100): a missing vote count passes
QualityBonus_NotAtMost(rating, voteCount) ==
    IF Truthy(rating) /\ ~(voteCount # Undefined /\ voteCount <= 100)
    THEN rating * 200
    ELSE 0

\* the quality bonus counted from 100 votes on
QualityBonus_FromHundred(rating, voteCount) ==
    IF Truthy(rating) /\ voteCount # Undefined /\ voteCount >= 100
    THEN rating * 200
    ELSE 0

\* lines 1149-1151: (rating / 10) * 20 if rating && voteCount > 100, in
\* thousandths; undefined > 100 is false
QualityBonus(rating, voteCount) ==
    IF Truthy(rating) /\ voteCount # Undefined /\ voteCount > 100
    THEN rating * 200
    ELSE 0

\* the bonuses as an if / else-if chain: only the first that applies is given
\* on top of the 30
TitleBonus_Exclusive(titleLower, queryLower) ==
    IF Includes(titleLower, queryLower)
    THEN 30000 + (IF titleLower = queryLower THEN 20000
                  ELSE IF StartsWith(titleLower, queryLower) THEN 15000 ELSE 0)
    ELSE 0

\* the bonuses without the one for a title equal to the query
TitleBonus_NoExact(titleLower, queryLower) ==
    IF Includes(titleLower, queryLower)
    THEN 30000 + (IF StartsWith(titleLower, queryLower) THEN 15000 ELSE 0)
    ELSE 0

\* lines 1159-1173: +30 contains, +20 equal, +15 starts with, in thousandths
TitleBonus(titleLower, queryLower) ==
    IF Includes(titleLower, queryLower)
    THEN 30000 + (IF titleLower = queryLower THEN 20000 ELSE 0)
               + (IF StartsWith(titleLower, queryLower) THEN 15000 ELSE 0)
    ELSE 0

\* the query words that some title word matches, each counted once
WordMatches_PerQueryWord(titleLower, queryLower) ==
    LET titleWords == SplitWhitespace(titleLower)
        queryWords == SplitWhitespace(queryLower)
    IN  Cardinality({ q \in 1..Len(queryWords) :
                        \E t \in 1..Len(titleWords) :
                            \/ Includes(titleWords[t], queryWords[q])
                            \/ Includes(queryWords[q], titleWords[t]) })

\* lines 1178-1190: the pairs of a query word and a title word of which one
\* contains the other
WordMatches(titleLower, queryLower) ==
    LET titleWords == SplitWhitespace(titleLower)
        queryWords == SplitWhitespace(queryLower)
    IN  Cardinality({ <<q, t>> \in (1..Len(queryWords)) \X (1..Len(titleWords)) :
                        \/ Includes(titleWords[t], queryWords[q])
                        \/ Includes(queryWords[q], titleWords[t]) })

\* lines 1135-1199, in thousandths
calculateSmartScore(title, query, popularity, rating, voteCount) ==
    LET titleLower == ToLowerCase(title)
        queryLower == ToLowerCase(query)
    IN  PopularityScore(popularity) + QualityBonus(rating, voteCount)
        + TitleBonus(titleLower, queryLower)
        + WordMatches(titleLower, queryLower) * 5000

\* a numeric field of an item, undefined when the item does not have it
NumberField(item, field) == IF field \in DOMAIN item THEN item[field] ELSE Undefined

\* movie.poster_path ? `https://image.tmdb.org/t/p/w500${...}` : null
PosterUrl(item) ==
    IF "poster_path" \in DOMAIN item /\ item.poster_path # <<>>
    THEN IMAGE_BASE \o item.poster_path
    ELSE Null

\* lines 1051-1055
SearchMovie(movie) ==
    Spread(movie, [media_type |-> "movie", poster_path |-> PosterUrl(movie)])

\* lines 1058-1064: a field the show does not have stays undefined
SearchShow(show) ==
    Spread(Spread(show, [media_type |-> "tv", poster_path |-> PosterUrl(show),
                         title |-> show.name]),
           IF "first_air_date" \in DOMAIN show
           THEN [release_date |-> show.first_air_date]
           ELSE [media_type |-> "tv"])

SmartScoreOf(item, query) ==
    calculateSmartScore(item.title, query, NumberField(item, "popularity"),
                        NumberField(item, "vote_average"),
                        NumberField(item, "vote_count"))

\* the comparator with its operands exchanged
CompareSmartScore_Ascending(a, b, query) ==
    SmartScoreOf(a, query) - SmartScoreOf(b, query)

\* lines 1070-1076: scoreB - scoreA
CompareSmartScore(a, b, query) == SmartScoreOf(b, query) - SmartScoreOf(a, query)

\* lines 1051-1081: the list searchMoviesAndTV returns
SearchResult(movieResults, tvResults, query) ==
    LET movies == [i \in 1..Len(movieResults) |-> SearchMovie(movieResults[i])]
        tvShows == [i \in 1..Len(tvResults) |-> SearchShow(tvResults[i])]
        BySmartScoreDescending(a, b) == CompareSmartScore(a, b, query)
    IN  Take(SortWith(movies \o tvShows, BySmartScoreDescending), 20)

AllOk(cs) == \A i \in 1..Len(cs) : cs[i].status = "ok"
AllSettled(fs) == \A i \in 1..Len(fs) : fs[i] # "pending"

\* the synchronous code after the enrichment Promise.all, up to the return
Finish(e, ds, cs, h) ==
    /\ apc' = "done"
    /\ IF e = "getPopularTVShows"
       THEN result' = PopularTVResult(ds)
       ELSE result' \in WatchAtHomeResults(h.movies, ds, cs[3].results)

\* the synchronous code after the Promise.all of the provider calls, up to
\* the next await or the return
AfterSources(e, cs) ==
    CASE e = "getUpcomingMovies" ->
            /\ result' = UpcomingResult(cs[1].results, cs[2].results,
                                        cs[3].results, cs[4].results, held.todayString)
            /\ apc' = "done"
            /\ UNCHANGED <<held, items, fetched, detailed>>
      [] e = "getStreamingPlatformContent" ->
            /\ result' = StreamingResult(cs[1].results, cs[2].results)
            /\ apc' = "done"
            /\ UNCHANGED <<held, items, fetched, detailed>>
      [] e = "searchMoviesAndTV" ->
            /\ result' = SearchResult(cs[1].results, cs[2].results, held.query)
            /\ apc' = "done"
            /\ UNCHANGED <<held, items, fetched, detailed>>
      [] e = "getPopularTVShows" ->
            LET combinedShows == CombinedShows(cs[1].results, cs[2].results)
            IN  /\ items' = combinedShows
                /\ fetched' = [i \in 1..Len(combinedShows) |-> "pending"]
                /\ detailed' = [i \in 1..Len(combinedShows) |-> Unset]
                /\ held' = held
                /\ IF Len(combinedShows) = 0
                   THEN Finish(e, <<>>, cs, held)
                   ELSE apc' = "details" /\ result' = result
      [] e = "getWatchAtHomeContent" ->
            LET tvShowsRaw == addType(cs[2].results, "tv")
            IN  \E shuffled \in Shuffles(addType(cs[1].results, "movie")) :
                   /\ held' = [movies |-> Take(shuffled, 15)]
                   /\ items' = tvShowsRaw
                   /\ fetched' = [i \in 1..Len(tvShowsRaw) |-> "pending"]
                   /\ detailed' = [i \in 1..Len(tvShowsRaw) |-> Unset]
                   /\ IF Len(tvShowsRaw) = 0
                      THEN Finish(e, <<>>, cs, held')
                      ELSE apc' = "details" /\ result' = result

\* the endpoint is called: every provider call is issued before the await
CallEndpoint ==
    /\ apc = "idle"
    /\ \E e \in Endpoints :
          /\ ep' = e
          /\ calls' = [i \in 1..NumCalls(e) |-> [status |-> "pending"]]
          /\ held' = IF e = "getUpcomingMovies" THEN [todayString |-> DATE_Today]
                     ELSE IF e = "searchMoviesAndTV" THEN [query |-> QUERY_avatar]
                     ELSE held
    /\ apc' = "sources"
    /\ UNCHANGED <<tvars, fvars, cvars, items, fetched, detailed, result>>

\* a rejected provider call is tolerated while another call may still
\* succeed: the endpoint fails only once every call has been rejected
SourceFails_OnlyWhenAllFailed ==
    /\ \E i \in 1..Len(calls) :
          /\ calls[i].status = "pending"
          /\ calls' = [calls EXCEPT ![i] = [status |-> "failed"]]
    /\ apc' = IF apc = "sources" /\ \A i \in 1..Len(calls') : calls'[i].status = "failed"
              THEN "failed" ELSE apc
    /\ UNCHANGED <<tvars, fvars, cvars, ep, held, items, fetched, detailed, result>>

\* the fan-out awaited with Promise.allSettled: a rejection is acted on only
\* once every call has settled
SourceFails_WaitsForAll ==
    /\ \E i \in 1..Len(calls) :
          /\ calls[i].status = "pending"
          /\ calls' = [calls EXCEPT ![i] = [status |-> "failed"]]
    /\ apc' = IF apc = "sources" /\ \A i \in 1..Len(calls') : calls'[i].status # "pending"
              THEN "failed" ELSE apc
    /\ UNCHANGED <<tvars, fvars, cvars, ep, held, items, fetched, detailed, result>>

\* a provider call is rejected: Promise.all rejects at the first rejection
\* and the catch block rethrows; later rejections change nothing
SourceFails ==
    /\ \E i \in 1..Len(calls) :
          /\ calls[i].status = "pending"
          /\ calls' = [calls EXCEPT ![i] = [status |-> "failed"]]
    /\ apc' = IF apc = "sources" THEN "failed" ELSE apc
    /\ UNCHANGED <<tvars, fvars, cvars, ep, held, items, fetched, detailed, result>>

\* a provider call succeeds: Promise.all resolves with the last success
SourceOk ==
    /\ \E i \in 1..Len(calls) :
          /\ calls[i].status = "pending"
          /\ \E results \in SourceLists(ep, i) :
                calls' = [calls EXCEPT ![i] = [status |-> "ok", results |-> results]]
    /\ IF apc = "sources" /\ AllOk(calls')
       THEN AfterSources(ep, calls')
       ELSE UNCHANGED <<apc, held, items, fetched, detailed, result>>
    /\ UNCHANGED <<tvars, fvars, cvars, ep>>

\* lines 129-130 / 985-986: the detail of item i arrives and is spread over it
ItemDetailOk ==
    /\ apc = "details"
    /\ \E i \in 1..Len(items) :
          /\ fetched[i] = "pending"
          /\ fetched' = [fetched EXCEPT ![i] = "ok"]
          /\ detailed' = [detailed EXCEPT ![i] = Spread(items[i], TVDetail(items[i]))]
    /\ IF AllSettled(fetched')
       THEN Finish(ep, detailed', calls, held)
       ELSE UNCHANGED <<apc, result>>
    /\ UNCHANGED <<tvars, fvars, cvars, ep, calls, held, items>>

\* the callback without its try/catch: the rejected detail request rejects
\* the Promise.all of the batch and the endpoint throws
ItemDetailFails_AbortsBatch ==
    /\ apc = "details"
    /\ \E i \in 1..Len(items) :
          /\ fetched[i] = "pending"
          /\ fetched' = [fetched EXCEPT ![i] = "failed"]
    /\ apc' = "failed"
    /\ UNCHANGED <<tvars, fvars, cvars, ep, calls, held, items, detailed, result>>

\* lines 131-134 / 987-989: the detail request of item i is rejected; the
\* catch inside the callback returns the item as listed
ItemDetailFails ==
    /\ apc = "details"
    /\ \E i \in 1..Len(items) :
          /\ fetched[i] = "pending"
          /\ fetched' = [fetched EXCEPT ![i] = "failed"]
          /\ detailed' = [detailed EXCEPT ![i] = items[i]]
    /\ IF AllSettled(fetched')
       THEN Finish(ep, detailed', calls, held)
       ELSE UNCHANGED <<apc, result>>
    /\ UNCHANGED <<tvars, fvars, cvars, ep, calls, held, items>>

InitAggregate ==
    /\ env = [TMDB_API_KEY |-> <<"T">>]
    /\ TrailerIdle /\ ComponentIdle /\ HelperIdle /\ AggregateIdle

NextAggregate ==
    \/ CallEndpoint \/ SourceFails \/ SourceOk \/ ItemDetailOk \/ ItemDetailFails

SpecAggregate == InitAggregate /\ [][NextAggregate]_vars

(***************************************************************************)
(* The ranking of searchMoviesAndTV (1051-1082) applied on its own to the  *)
(* two search responses.                                                   *)
(***************************************************************************)
RankTitles == <<TITLE_Avatar, TITLE_Airbender, TITLE_Avatars>>
RankPopularities == <<1000, 5>>
NumPatterns == 3

\* the i-th movie of a response of pattern p: titles and popularities come
\* round again, so that different items have the same score
RankedMovie(i, p) ==
    LET listed == [id |-> i, title |-> RankTitles[((i * p) % 3) + 1]]
        q == (i + p) % 3
    IN  IF q = 0 THEN listed
        ELSE Spread(listed, [popularity |-> RankPopularities[q]])

RankedShow(i, p) ==
    LET listed == [id |-> 100 + i, name |-> RankTitles[((i * p) % 3) + 1]]
        q == (i + p) % 3
    IN  IF q = 0 THEN listed
        ELSE Spread(listed, [popularity |-> RankPopularities[q]])

SearchLengths == {0, 1, 2, 3, MaxSearch}

QUERY_it == <<"i","t">>
TITLE_It == <<"I","t">>
TITLE_ItFollows == <<"I","t"," ","F","o","l","l","o","w","s">>
TITLE_ItFive == <<"I","t"," ","H","i","t"," ","B","i","t"," ","K","i","t"," ","S","i","t">>
TITLE_ItSix == <<"I","t"," ","H","i","t"," ","B","i","t"," ","K","i","t"," ","S","i","t"," ","F","i","t">>

\* a query, a title equal to it but for the case, and a title that contains it
TitlePairs ==
    { [query |-> QUERY_avatar, exact |-> e, other |-> o] :
        e \in {TITLE_Avatar, TITLE_AVATAR},
        o \in {TITLE_AvatarWater, TITLE_Avatar2, TITLE_TheAvatar, TITLE_AvatarAvatar} }
    \cup { [query |-> QUERY_it, exact |-> TITLE_It, other |-> o] :
             o \in {TITLE_ItFollows, TITLE_ItFive, TITLE_ItSix} }

\* the two responses of a search that finds the two titles of a pair with the
\* same popularity, rating and vote count, in either order
PairResponses ==
    { [movieResults |->
          IF order = 1 THEN <<Spread([id |-> 1, title |-> t.exact], stats),
                              Spread([id |-> 2, title |-> t.other], stats)>>
          ELSE <<Spread([id |-> 2, title |-> t.other], stats)>>,
       tvResults |->
          IF order = 1 THEN <<>>
          ELSE <<Spread([id |-> 1, name |-> t.exact], stats)>>,
       query |-> t.query] :
        t \in TitlePairs, order \in 1..2,
        stats \in { [media_type |-> "listed"],
                    [popularity |-> 1000, vote_average |-> 76, vote_count |-> 500] } }

InitRank ==
    /\ env = [TMDB_API_KEY |-> <<"T">>] /\ TrailerIdle /\ ComponentIdle /\ AggregateIdle
    /\ fnArgs \in { [movieResults |-> [i \in 1..nm |-> RankedMovie(i, pm)],
                      tvResults |-> [i \in 1..nt |-> RankedShow(i, pt)],
                      query |-> QUERY_avatar] :
                     nm \in SearchLengths, nt \in SearchLengths,
                     pm \in 1..NumPatterns, pt \in 1..NumPatterns }
               \cup PairResponses
    /\ fnResult = Unset

CallSearchResult ==
    /\ fnResult = Unset
    /\ fnResult' = [value |-> SearchResult(fnArgs.movieResults, fnArgs.tvResults,
                                           fnArgs.query)]
    /\ UNCHANGED <<tvars, avars, cvars, fnArgs>>

SpecRank == InitRank /\ [][CallSearchResult]_vars

(***************************************************************************)
(* calculateSmartScore (1135-1199) called on its own, for two popularities *)
(* of one item, and the comparator of searchMoviesAndTV applied to the two.*)
(***************************************************************************)
ScoreTitles ==
    {TITLE_Avatar, TITLE_AVATAR, TITLE_Avatar2, TITLE_TheAvatar, TITLE_Airbenders,
     TITLE_Avatars, TITLE_AvatarAvatar}
ScoreQueries == {QUERY_avatar, TITLE_Avatar, QUERY_the_avatar}
\* in tenths: undefined, 0, 0.5, 1.0, 10.0
ScorePopularities == {Undefined, 0, 5, 10, 100}
\* in tenths: undefined, 0, 5.0, 7.6, 10.0
ScoreRatings == {Undefined, 0, 50, 76, 100}
ScoreVoteCounts == {Undefined, 100, 101, 500}

\* the movie a search response lists with these values; a value that is
\* undefined is a field the movie does not have
ListedMovie(id, title, popularity, rating, voteCount) ==
    [f \in {"id", "title"}
          \cup (IF popularity = Undefined THEN {} ELSE {"popularity"})
          \cup (IF rating = Undefined THEN {} ELSE {"vote_average"})
          \cup (IF voteCount = Undefined THEN {} ELSE {"vote_count"}) |->
        CASE f = "id" -> id
          [] f = "title" -> title
          [] f = "popularity" -> popularity
          [] f = "vote_average" -> rating
          [] f = "vote_count" -> voteCount]

InitSmartScore ==
    /\ env = [TMDB_API_KEY |-> <<"T">>] /\ TrailerIdle /\ ComponentIdle /\ AggregateIdle
    /\ fnArgs \in { [title |-> t, query |-> q, popularity |-> p, popularity2 |-> p2,
                      rating |-> r, voteCount |-> v] :
                     t \in ScoreTitles, q \in ScoreQueries, p \in ScorePopularities,
                     p2 \in ScorePopularities, r \in ScoreRatings,
                     v \in ScoreVoteCounts }
    /\ fnResult = Unset

CallCalculateSmartScore ==
    /\ fnResult = Unset
    /\ fnResult' =
          [score |-> calculateSmartScore(fnArgs.title, fnArgs.query, fnArgs.popularity,
                                         fnArgs.rating, fnArgs.voteCount),
           score2 |-> calculateSmartScore(fnArgs.title, fnArgs.query, fnArgs.popularity2,
                                          fnArgs.rating, fnArgs.voteCount),
           ranked |-> SearchResult(
                          << ListedMovie(1, fnArgs.title, fnArgs.popularity,
                                         fnArgs.rating, fnArgs.voteCount),
                             ListedMovie(2, fnArgs.title, fnArgs.popularity2,
                                         fnArgs.rating, fnArgs.voteCount) >>,
                          <<>>, fnArgs.query)]
    /\ UNCHANGED <<tvars, avars, cvars, fnArgs>>

SpecSmartScore == InitSmartScore /\ [][CallCalculateSmartScore]_vars

(***************************************************************************)
(* The deduplications of getUpcomingMovies (224-226) and of                *)
(* getWatchAtHomeContent (1004-1013) called on their own.                  *)
(***************************************************************************)
\* movies as the four pages may list them: the same id may come twice, with
\* the fields of the page that listed it
DedupMovies ==
    { [id |-> i, title |-> t] : i \in 1..2, t \in {"page copy A", "page copy B"} }

\* items as getWatchAtHomeContent tags them
DedupContent ==
    { [media_type |-> m, id |-> i, name |-> n] :
        m \in {"movie", "tv"}, i \in 1..2, n \in {"copy A", "copy B"} }

InitDedup ==
    /\ env = [TMDB_API_KEY |-> <<"T">>] /\ TrailerIdle /\ ComponentIdle /\ AggregateIdle
    /\ fnArgs \in { [fn |-> "uniqueMovies", list |-> l] :
                      l \in ItemLists(DedupMovies, MaxDedup) }
               \cup { [fn |-> "uniqueContent", list |-> l] :
                      l \in ItemLists(DedupContent, MaxDedup) }
    /\ fnResult = Unset

CallUniqueMovies ==
    /\ fnResult = Unset /\ fnArgs.fn = "uniqueMovies"
    /\ fnResult' = [value |-> UniqueMovies(fnArgs.list)]
    /\ UNCHANGED <<tvars, avars, cvars, fnArgs>>

CallUniqueContent ==
    /\ fnResult = Unset /\ fnArgs.fn = "uniqueContent"
    /\ fnResult' = [value |-> UniqueContent(fnArgs.list)]
    /\ UNCHANGED <<tvars, avars, cvars, fnArgs>>

NextDedup == CallUniqueMovies \/ CallUniqueContent

SpecDedup == InitDedup /\ [][NextDedup]_vars

(***************************************************************************)
(* The endpoints applied to provider responses longer than the lists they  *)
(* return: getUpcomingTVShows (278-307), getTrendingAnime (324-387) and    *)
(* the synchronous parts of the aggregate endpoints.                       *)
(***************************************************************************)
MaxBig == 21
MaxShift == 1
BigLengths == {0, 11, 16, MaxBig}

\* the i-th item of the k-th response of a request: every fifth carries an
\* excluded genre, most are animation, two in three are Japanese; the ids of
\* two responses overlap
ListedItem(i, k) ==
    [id |-> i + 5 * (k - 1),
     title |-> RankTitles[(i % 3) + 1],
     name |-> RankTitles[(i % 3) + 1],
     popularity |-> IF i % 3 = 0 THEN 10 ELSE IF i % 3 = 1 THEN 100 ELSE 1000,
     vote_average |-> (i * 7) % 100,
     vote_count |-> 20 * i,
     genre_ids |-> IF i % 5 = 0 THEN <<10764, 18>>
                   ELSE IF i % 7 = 0 THEN <<18>> ELSE <<16>>,
     original_language |-> IF i % 3 = 0 THEN "en" ELSE "ja",
     origin_country |-> IF i % 4 = 0 THEN <<"JP">> ELSE <<"US">>,
     release_date |-> IF i % 6 = 0 THEN DATE_Past ELSE DATE_Future]

\* response.data.results of the k-th request, n items long
ListedResults(n, k) == [i \in 1..n |-> ListedItem(i, k)]

\* line 303
UpcomingTVResult(results) == Take(results, 20)

\* lines 330-337: isAnimation && (isJapanese || isFromJapan)
IsAnime(show) ==
    /\ "genre_ids" \in DOMAIN show
    /\ \E i \in 1..Len(show.genre_ids) : show.genre_ids[i] = 16
    /\ \/ show.original_language = "ja"
       \/ /\ "origin_country" \in DOMAIN show
          /\ \E i \in 1..Len(show.origin_country) : show.origin_country[i] = "JP"

\* lines 329-383: the list getTrendingAnime returns, given the trending
\* response and the response of the supplement request (sent only when fewer
\* than 10 trending shows are anime)
TrendingAnimeResult(trendingResults, supplementResults) ==
    LET trendingAnime == Filter(trendingResults, IsAnime)
        NotExisting(anime) ==
            ~\E i \in 1..Len(trendingAnime) : trendingAnime[i].id = anime.id
        animeShows ==
            IF Len(trendingAnime) < 10
            THEN trendingAnime \o Filter(supplementResults, NotExisting)
            ELSE trendingAnime
        InTrending(a) ==
            \E i \in 1..Len(trendingResults) : trendingResults[i].id = a.id
        ByTrendingThenPopularity(a, b) ==
            IF InTrending(a) /\ ~InTrending(b) THEN -1
            ELSE IF ~InTrending(a) /\ InTrending(b) THEN 1
            ELSE PopularityOrZero(b) - PopularityOrZero(a)
    IN  Take(SortWith(animeShows, ByTrendingThenPopularity), 20)

\* lines 126-136 / 983-991: each show enriched with its detail record, or left
\* as listed when its detail request fails (every failEvery-th one does)
Enriched(shows, failEvery) ==
    [i \in 1..Len(shows) |->
        IF failEvery # 0 /\ i % failEvery = 0 THEN shows[i]
        ELSE Spread(shows[i], TVDetail(shows[i]))]

\* one outcome of shuffleArray (925-932): the array turned by p.shift places
\* and, with p.reversed, back to front
Shuffled(array, p) ==
    LET n == Len(array)
        turned == [i \in 1..n |-> array[((i - 1 + p.shift) % n) + 1]]
    IN  IF p.reversed THEN [i \in 1..n |-> turned[n + 1 - i]] ELSE turned

\* lines 977-1018: the list getWatchAtHomeContent returns when each of its
\* four shuffles comes out as p does
WatchAtHomeResult(movieResults, tvShowsDetailed, animeResults, p) ==
    LET movies == Take(Shuffled(addType(movieResults, "movie"), p), 15)
        tvShows == Take(Shuffled(Filter(tvShowsDetailed, KeepHomeShow), p), 15)
        anime == Take(Shuffled(Filter(addType(animeResults, "anime"), IsJapanese),
                               p), 10)
        shuffledContent == Shuffled(movies \o tvShows \o anime, p)
    IN  Take(UniqueContent(shuffledContent), 40)

NoShuffle == [shift |-> 0, reversed |-> FALSE]

\* the calls: the endpoint, the lengths of the responses of its provider
\* requests, which detail requests fail, how the shuffles come out
SizedCalls ==
    { [endpoint |-> e, n |-> <<n1, n2, 0>>, failEvery |-> 0, shuffle |-> NoShuffle] :
        e \in {"getUpcomingMovies", "getTrendingAnime",
               "getStreamingPlatformContent", "searchMoviesAndTV"},
        n1 \in BigLengths, n2 \in BigLengths }
    \cup { [endpoint |-> "getUpcomingTVShows", n |-> <<n1, 0, 0>>, failEvery |-> 0,
            shuffle |-> NoShuffle] : n1 \in BigLengths }
    \cup { [endpoint |-> "getPopularTVShows", n |-> <<n1, n2, 0>>, failEvery |-> f,
            shuffle |-> NoShuffle] :
             n1 \in BigLengths, n2 \in BigLengths, f \in {0, 3} }
    \cup { [endpoint |-> "getWatchAtHomeContent", n |-> <<n1, n2, n3>>,
            failEvery |-> f, shuffle |-> [shift |-> k, reversed |-> r]] :
             n1 \in BigLengths, n2 \in BigLengths, n3 \in BigLengths,
             f \in {0, 3}, k \in 0..MaxShift, r \in BOOLEAN }

\* what the endpoint of a call returns
SizedResult(c) ==
    LET r1 == ListedResults(c.n[1], 1)
        r2 == ListedResults(c.n[2], 2)
        r3 == ListedResults(c.n[3], 3)
    IN  CASE c.endpoint = "getPopularTVShows" ->
                PopularTVResult(Enriched(CombinedShows(r1, r2), c.failEvery))
          [] c.endpoint = "getUpcomingMovies" ->
                UpcomingResult(r1, r2, r3, r3, DATE_Today)
          [] c.endpoint = "getUpcomingTVShows" -> UpcomingTVResult(r1)
          [] c.endpoint = "getTrendingAnime" -> TrendingAnimeResult(r1, r2)
          [] c.endpoint = "getStreamingPlatformContent" -> StreamingResult(r1, r2)
          [] c.endpoint = "searchMoviesAndTV" -> SearchResult(r1, r2, QUERY_avatar)
          [] c.endpoint = "getWatchAtHomeContent" ->
                WatchAtHomeResult(r1, Enriched(addType(r2, "tv"), c.failEvery),
                                  r3, c.shuffle)

InitBounds ==
    /\ env = [TMDB_API_KEY |-> <<"T">>] /\ TrailerIdle /\ ComponentIdle /\ AggregateIdle
    /\ fnArgs \in SizedCalls
    /\ fnResult = Unset

CallSized ==
    /\ fnResult = Unset
    /\ fnResult' = [value |-> SizedResult(fnArgs)]
    /\ UNCHANGED <<tvars, avars, cvars, fnArgs>>

SpecBounds == InitBounds /\ [][CallSized]_vars

(***************************************************************************)
(* The ComingSoonTheatre component (src/unnamed/part_001): its three       *)
(* state cells, fetchUpcomingMovies and the view it renders.               *)
(***************************************************************************)
\* most calls of fetchUpcomingMovies of one mounted component
MaxFetches == 3
\* longest list of movies of a response body
MaxMovies == 21

\* a JavaScript string held in a state cell that also holds null
Str(s) == [tag |-> "string", text |-> s]

LIT_FailedToLoad == <<"Failed to load upcoming movies: ">>
LIT_HttpError == <<"HTTP error! status: ">>
LIT_Unsuccessful == <<"API returned unsuccessful response">>
\* the messages of the errors the runtime raises: fetch rejecting, json()
\* rejecting, data.data.slice on a body without data
MSG_FailedToFetch == <<"Failed to fetch">>
MSG_UnexpectedToken == <<"Unexpected token">>
MSG_CannotReadSlice == <<"Cannot read properties of undefined (reading 'slice')">>

\* the responses fetch may resolve with
Responses == { [ok |-> TRUE, status |-> 200], [ok |-> FALSE, status |-> 404],
               [ok |-> FALSE, status |-> 500] }

MovieLengths == {0, 1, 20, MaxMovies}

\* the bodies response.json() may resolve with
Bodies ==
    { [success |-> TRUE, data |-> [i \in 1..n |-> [id |-> i, title |-> "Movie"]]] :
        n \in MovieLengths }
    \cup { [success |-> FALSE], [success |-> TRUE] }

\* the sequence without its i-th element
Remove(seq, i) == SubSeq(seq, 1, i - 1) \o SubSeq(seq, i + 1, Len(seq))

\* lines 67-108: what the component renders
View ==
    IF loading THEN "loading"
    ELSE IF error # Null /\ error.text # <<>> THEN "error"
    ELSE IF Len(upcomingMovies) = 0 THEN "empty"
    ELSE "list"

\* lines 85-90: the 'Try Again' button is part of the error view only
RetryOffered == View = "error"

\* lines 20-29: fetchUpcomingMovies up to its first await
StartFetch ==
    /\ loading' = TRUE
    /\ error' = Null
    /\ inflight' = Append(inflight, [phase |-> "fetch"])
    /\ UNCHANGED <<upcomingMovies, outcomes>>

\* mutant: the catch block without its setLoading(false)
Catch_StaysLoading(i, message) ==
    /\ error' = Str(LIT_FailedToLoad \o message)
    /\ inflight' = Remove(inflight, i)
    /\ outcomes' = Append(outcomes, [ok |-> FALSE, message |-> message])
    /\ UNCHANGED <<mounted, upcomingMovies, loading>>

\* lines 53-58: the catch block, entered with err.message = message
Catch(i, message) ==
    /\ error' = Str(LIT_FailedToLoad \o message)
    /\ loading' = FALSE
    /\ inflight' = Remove(inflight, i)
    /\ outcomes' = Append(outcomes, [ok |-> FALSE, message |-> message])
    /\ UNCHANGED <<mounted, upcomingMovies>>

\* lines 62-64: the effect of the first render
Mount ==
    /\ ~mounted
    /\ mounted' = TRUE
    /\ StartFetch
    /\ UNCHANGED <<tvars, fvars, avars>>

\* mutant: the button rendered in every view
RetryClick_AlwaysOffered ==
    /\ mounted
    /\ Len(outcomes) + Len(inflight) < MaxFetches
    /\ StartFetch
    /\ UNCHANGED <<tvars, fvars, avars, mounted>>

\* line 86: a click on 'Try Again'
RetryClick ==
    /\ mounted /\ RetryOffered
    /\ Len(outcomes) + Len(inflight) < MaxFetches
    /\ StartFetch
    /\ UNCHANGED <<tvars, fvars, avars, mounted>>

\* line 29 rejects (no connection)
FetchRejects ==
    /\ \E i \in 1..Len(inflight) :
          /\ inflight[i].phase = "fetch"
          /\ Catch(i, MSG_FailedToFetch)
    /\ UNCHANGED <<tvars, fvars, avars>>

\* lines 29-39: the response arrives; a status that is not OK is thrown
FetchResponds ==
    /\ \E i \in 1..Len(inflight) :
          /\ inflight[i].phase = "fetch"
          /\ \E response \in Responses :
                IF ~response.ok
                THEN Catch(i, LIT_HttpError \o NatToString(response.status))
                ELSE /\ inflight' = [inflight EXCEPT ![i] = [phase |-> "json"]]
                     /\ UNCHANGED <<mounted, upcomingMovies, loading, error, outcomes>>
    /\ UNCHANGED <<tvars, fvars, avars>>

\* line 39 rejects (the body is not JSON)
JsonRejects ==
    /\ \E i \in 1..Len(inflight) :
          /\ inflight[i].phase = "json"
          /\ Catch(i, MSG_UnexpectedToken)
    /\ UNCHANGED <<tvars, fvars, avars>>

\* lines 39-52: the body arrives
JsonResolves ==
    /\ \E i \in 1..Len(inflight) :
          /\ inflight[i].phase = "json"
          /\ \E body \in Bodies :
                IF ~body.success THEN Catch(i, LIT_Unsuccessful)
                ELSE IF "data" \notin DOMAIN body THEN Catch(i, MSG_CannotReadSlice)
                ELSE /\ upcomingMovies' = Take(body.data, 20)
                     /\ loading' = FALSE
                     /\ inflight' = Remove(inflight, i)
                     /\ outcomes' = Append(outcomes, [ok |-> TRUE, data |-> body.data])
                     /\ UNCHANGED <<mounted, error>>
    /\ UNCHANGED <<tvars, fvars, avars>>

InitComponent ==
    /\ env = [TMDB_API_KEY |-> <<"T">>]
    /\ TrailerIdle /\ HelperIdle /\ AggregateIdle /\ ComponentIdle

\* a request in flight settles
Settle == FetchRejects \/ FetchResponds \/ JsonRejects \/ JsonResolves

NextComponent == Mount \/ RetryClick \/ Settle

SpecComponent == InitComponent /\ [][NextComponent]_vars

\* the browser settles every request, with a response or with an error
SpecComponentFair == SpecComponent /\ WF_vars(Settle)

(***************************************************************************)
(* Claims about the trailer resolver.                                      *)
(***************************************************************************)
\* the secondary provider key is available (stated from process.env)
KeyAvailable == "YOUTUBE_API_KEY" \in DOMAIN env /\ Len(env.YOUTUBE_API_KEY) > 0

\* the title and year the search stage works with, read off the detail record
SearchTitle == IF kind = "movie" THEN data.title ELSE data.name
SearchYear ==
    IF kind = "movie"
    THEN (IF "release_date" \in DOMAIN data THEN YearOf(2021) ELSE YearNone)
    ELSE (IF "first_air_date" \in DOMAIN data THEN YearOf(2021) ELSE YearNone)

\* a search response that holds at least one result with a positive score
HasPositiveResult(response) ==
    /\ response # Unset /\ response # SearchError
    /\ "items" \in DOMAIN response.data
    /\ \E i \in 1..Len(response.data.items) :
          calculateTrailerScore(response.data.items[i], SearchTitle, SearchYear) > 0

\* C1: trailer resolution never makes the content request fail: a request
\* fails only on the detail or season await, before any trailer is selected
\* or searched; once selection has run the request is searching or has
\* returned; a returned record carries trailer = a tmdb trailer, a youtube
\* trailer or null; a search error ends in a returned record with trailer null.
C1_TrailerNeverFails ==
    /\ pc = "failed" =>
          /\ thrown # Null /\ thrown.await \in {"detail", "season"}
          /\ tmdbTrailer = Unset /\ issued = <<>> /\ lastResp = Unset
    /\ tmdbTrailer # Unset => pc \in {"search", "done"}
    /\ pc \in {"search", "done"} => thrown = Null
    /\ pc = "done" =>
          /\ "trailer" \in DOMAIN data
          /\ data.trailer = Null \/ data.trailer.source \in {"tmdb", "youtube"}
    /\ lastResp = SearchError => pc = "done" /\ data.trailer = Null

C1_Witness == pc = "done" /\ lastResp = SearchError /\ Len(issued) = 2

\* the five predicates of the primary lookup, by priority
C2_Satisfies(k, v) ==
    LET lower == ToLowerCase(v.name)
    IN  \/ k = 1 /\ v.type = "Trailer" /\ Includes(lower, LIT_official)
        \/ k = 2 /\ v.type = "Trailer" /\ Includes(lower, LIT_main)
        \/ k = 3 /\ v.type = "Trailer"
        \/ k = 4 /\ v.type = "Teaser" /\ Includes(lower, LIT_official)
        \/ k = 5 /\ v.type = "Teaser"

\* positions of the YouTube-hosted videos of the argument list
C2_YouTubeAt == { i \in 1..Len(fnArgs.videos) : fnArgs.videos[i].site = "YouTube" }

\* C2: getValidTMDBTrailer returns the earliest-listed YouTube video that
\* satisfies the first of the five predicates (in their fixed order) that any
\* YouTube video satisfies; so no Teaser is returned while a YouTube video of
\* type Trailer is listed, whatever the positions.
C2_PriorityOrder ==
    fnResult # Unset =>
        \A k \in 1..5 :
            ( /\ \E i \in C2_YouTubeAt : C2_Satisfies(k, fnArgs.videos[i])
              /\ \A h \in 1..(k - 1) : \A i \in C2_YouTubeAt :
                    ~C2_Satisfies(h, fnArgs.videos[i]) )
            => /\ \E i \in C2_YouTubeAt :
                    /\ fnResult = fnArgs.videos[i]
                    /\ C2_Satisfies(k, fnArgs.videos[i])
                    /\ \A j \in C2_YouTubeAt :
                          j < i => ~C2_Satisfies(k, fnArgs.videos[j])
               /\ (\E i \in C2_YouTubeAt : fnArgs.videos[i].type = "Trailer")
                     => fnResult.type = "Trailer"

\* a later-listed Trailer is returned over an earlier-listed YouTube Teaser
C2_Witness ==
    /\ fnResult # Unset /\ Len(fnArgs.videos) = 3
    /\ fnArgs.videos[1].site = "YouTube" /\ fnArgs.videos[1].type = "Teaser"
    /\ fnArgs.videos[3].site = "YouTube" /\ fnArgs.videos[3].type = "Trailer"
    /\ fnResult = fnArgs.videos[3]

\* C3: getValidTMDBTrailer returns null exactly when no video of the list is
\* hosted on YouTube; with a YouTube video but none of type Trailer or Teaser
\* it returns the first YouTube video in list order; it never returns a video
\* hosted elsewhere.
C3_NullIffNoYouTube ==
    fnResult # Unset =>
        /\ (fnResult = Null) <=> (C2_YouTubeAt = {})
        /\ fnResult # Null =>
              /\ fnResult.site = "YouTube"
              /\ \E i \in C2_YouTubeAt : fnResult = fnArgs.videos[i]
        /\ ( /\ C2_YouTubeAt # {}
             /\ \A i \in C2_YouTubeAt :
                   fnArgs.videos[i].type \notin {"Trailer", "Teaser"} )
           => \E i \in C2_YouTubeAt :
                 /\ fnResult = fnArgs.videos[i]
                 /\ \A j \in C2_YouTubeAt : i <= j

\* the last resort: a YouTube Featurette listed behind a Vimeo Trailer
C3_Witness ==
    /\ fnResult # Unset /\ fnResult # Null /\ Len(fnArgs.videos) = 3
    /\ fnArgs.videos[1].site = "Vimeo" /\ fnArgs.videos[1].type = "Trailer"
    /\ fnArgs.videos[2].site = "YouTube" /\ fnArgs.videos[2].type = "Featurette"
    /\ fnArgs.videos[3].site = "YouTube" /\ fnArgs.videos[3].type = "Featurette"
    /\ fnResult = fnArgs.videos[2]

\* C4: the search stage runs only when the primary lookup failed: whenever
\* the primary lookup returned a video, no search request was issued, no
\* search response was received, and the request has returned with a trailer
\* whose source is 'tmdb'.
C4_SearchOnlyOnPrimaryFailure ==
    (tmdbTrailer # Unset /\ tmdbTrailer # Null) =>
        /\ issued = <<>> /\ lastResp = Unset
        /\ pc = "done"
        /\ "trailer" \in DOMAIN data /\ data.trailer # Null
        /\ data.trailer.source = "tmdb"

\* the key is available and the search is still not used
C4_Witness ==
    /\ pc = "done" /\ tmdbTrailer # Unset /\ tmdbTrailer # Null
    /\ KeyAvailable /\ kind = "tv" /\ seasonIdx > 0

C5_QueriesWithYear ==
    << <<"M","o","v","i","e"," ","T","i","t","l","e"," ","2","0","2","1"," ","o","f","f","i","c","i","a","l"," ","t","r","a","i","l","e","r">>,
       <<"M","o","v","i","e"," ","T","i","t","l","e"," ","2","0","2","1"," ","t","r","a","i","l","e","r">>,
       <<"M","o","v","i","e"," ","T","i","t","l","e"," ","o","f","f","i","c","i","a","l"," ","t","r","a","i","l","e","r">>,
       <<"M","o","v","i","e"," ","T","i","t","l","e"," ","t","r","a","i","l","e","r">> >>
C5_QueriesNoYear ==
    << <<"M","o","v","i","e"," ","T","i","t","l","e"," "," ","o","f","f","i","c","i","a","l"," ","t","r","a","i","l","e","r">>,
       <<"M","o","v","i","e"," ","T","i","t","l","e"," "," ","t","r","a","i","l","e","r">>,
       <<"M","o","v","i","e"," ","T","i","t","l","e"," ","o","f","f","i","c","i","a","l"," ","t","r","a","i","l","e","r">>,
       <<"M","o","v","i","e"," ","T","i","t","l","e"," ","t","r","a","i","l","e","r">> >>
C5_Expected ==
    IF SearchYear = YearNone THEN C5_QueriesNoYear ELSE C5_QueriesWithYear

\* the queries issued so far are the first ones of the fixed order
C5_IssuedInOrder ==
    issued # <<>> =>
        /\ Len(issued) <= 4
        /\ \A k \in 1..Len(issued) : issued[k] = C5_Expected[k]

\* one step: at most one query is issued; a further query only after a
\* response without a positive-score result; a response with one ends the
\* search with that stage's trailer; nothing is issued after the return
C5_Step ==
    /\ Len(issued') <= Len(issued) + 1
    /\ \A k \in 1..Len(issued) : issued'[k] = issued[k]
    /\ (Len(issued) >= 1 /\ Len(issued') = Len(issued) + 1) =>
          /\ lastResp' # Unset /\ lastResp' # SearchError
          /\ ~HasPositiveResult(lastResp')
    /\ (pc = "search" /\ HasPositiveResult(lastResp')) =>
          /\ pc' = "done" /\ issued' = issued
          /\ data'.trailer # Null /\ data'.trailer.source = "youtube"
    /\ pc = "done" => issued' = issued

\* C5: searchYouTubeTrailer issues its queries one at a time in the order
\* title+year+"official trailer", title+year+"trailer", title+"official
\* trailer", title+"trailer"; it issues query k+1 only if the response to
\* query k held no result with a positive score, issues at most four, and
\* issues none after a result was selected.
C5_QueryCascade == []C5_IssuedInOrder /\ [][C5_Step]_vars

\* stopped at the third query
C5_Witness ==
    /\ pc = "done" /\ Len(issued) = 3
    /\ data.trailer # Null /\ data.trailer.source = "youtube"

\* the scores the claim's weights give the search results, worked by hand
\* for the media title "Movie Title"
C6_ExpectedScore(video, year) ==
    LET id == video.id.videoId
        y2021 == year = YearOf(2021)
    IN  CASE id = <<"y","1">> -> 10 + 8 + 6 + 10
          [] id = <<"y","2">> -> 10 + 6 - 10
          [] id = <<"y","3">> -> 10 - 10
          [] id = <<"y","4">> -> (IF y2021 THEN 5 ELSE 0) + 10 - 10 - 15
          [] id = <<"y","5">> -> (IF y2021 THEN 5 ELSE 0)

\* C6: every result of one response is scored as the sum of +10 title, +5
\* year, +8 "official", +6 "trailer", +10 official channel, -10 "reaction",
\* -10 "review", -15 "fan made", case-insensitively; findBestYouTubeTrailer
\* returns a result with a strictly positive score that no other result
\* exceeds, and null when every result scores zero or less.
C6_ScoreAndBest ==
    LET videos == fnArgs.videos
        score(v) == calculateTrailerScore(v, fnArgs.originalTitle, fnArgs.year)
    IN  /\ \A i \in 1..Len(videos) :
              score(videos[i]) = C6_ExpectedScore(videos[i], fnArgs.year)
        /\ fnResult # Unset =>
              /\ (fnResult = Null) <=>
                    (\A i \in 1..Len(videos) :
                        C6_ExpectedScore(videos[i], fnArgs.year) <= 0)
              /\ fnResult # Null =>
                    /\ \E i \in 1..Len(videos) : videos[i] = fnResult
                    /\ C6_ExpectedScore(fnResult, fnArgs.year) > 0
                    /\ \A i \in 1..Len(videos) :
                          C6_ExpectedScore(videos[i], fnArgs.year)
                             <= C6_ExpectedScore(fnResult, fnArgs.year)

\* the best result is listed behind a lower, positive one
C6_Witness ==
    /\ fnResult # Unset /\ fnResult # Null /\ Len(fnArgs.videos) = 2
    /\ fnArgs.videos[1].id.videoId = <<"y","2">>
    /\ fnArgs.videos[2].id.videoId = <<"y","1">>
    /\ fnResult = fnArgs.videos[2]

\* C7: when the primary lookup fails and the secondary provider key is
\* unavailable the request returns trailer = null without any search request;
\* when the fourth query too came back without a positive-score result the
\* request returns trailer = null.
C7_NoneOutcome ==
    /\ (tmdbTrailer = Null /\ ~KeyAvailable) =>
          /\ pc = "done" /\ issued = <<>> /\ lastResp = Unset
          /\ "trailer" \in DOMAIN data /\ data.trailer = Null
    /\ ~KeyAvailable => issued = <<>>
    /\ ( /\ pc = "done" /\ Len(issued) = 4
         /\ ~HasPositiveResult(lastResp) )
       => "trailer" \in DOMAIN data /\ data.trailer = Null

C7_Witness ==
    /\ pc = "done" /\ tmdbTrailer = Null /\ ~KeyAvailable
    /\ "YOUTUBE_API_KEY" \in DOMAIN env
    /\ data.videos # Null /\ Len(data.videos.results) > 0

\* C8: a returned record has its trailer field present, and it is a 'tmdb'
\* trailer exactly when the primary lookup succeeded (then built from that
\* video), a 'youtube' trailer exactly when the primary lookup failed and the
\* last search response held a positive-score result, and null exactly when
\* both stages produced nothing.
C8_TrailerFieldDefined ==
    pc = "done" =>
        /\ "trailer" \in DOMAIN data
        /\ LET primaryOk == tmdbTrailer # Unset /\ tmdbTrailer # Null
               secondaryOk == ~primaryOk /\ HasPositiveResult(lastResp)
           IN  /\ primaryOk <=>
                     (data.trailer # Null /\ data.trailer.source = "tmdb")
               /\ primaryOk => data.trailer.key = tmdbTrailer.key
               /\ secondaryOk <=>
                     (data.trailer # Null /\ data.trailer.source = "youtube")
               /\ (~primaryOk /\ ~secondaryOk) <=> data.trailer = Null

C8_Witness ==
    /\ pc = "done" /\ kind = "movie"
    /\ "trailer" \in DOMAIN data /\ data.trailer # Null
    /\ data.trailer.source = "youtube" /\ Len(issued) = 2

(***************************************************************************)
(* Claims about the aggregate endpoints.                                   *)
(***************************************************************************)
SomeCallFailed == \E i \in 1..Len(calls) : calls[i].status = "failed"
SomeCallOk == \E i \in 1..Len(calls) : calls[i].status = "ok"
EveryCallFailed == \A i \in 1..Len(calls) : calls[i].status = "failed"

\* C9 as worded: an aggregate endpoint raises only when all of its source
\* calls failed, and it does not raise when at least one of them succeeded.
C9_OnlyTotalFailurePropagates ==
    ep \in Endpoints =>
        /\ apc = "failed" => EveryCallFailed
        /\ SomeCallOk => apc # "failed"

\* C9 (amended): an aggregate endpoint raises exactly when some source call
\* of its Promise.all failed, already at the first failure and whatever the
\* other calls did; it goes on to its result only when every one of its
\* source calls succeeded.
C9_AnyFailurePropagates ==
    ep \in Endpoints =>
        /\ Len(calls) = NumCalls(ep)
        /\ apc = "failed" <=> SomeCallFailed
        /\ apc \in {"details", "done"} => AllOk(calls)

C9_Witness ==
    /\ ep = "getUpcomingMovies" /\ apc = "failed"
    /\ Cardinality({ i \in 1..Len(calls) : calls[i].status = "ok" }) = 3
    /\ Cardinality({ i \in 1..Len(calls) : calls[i].status = "failed" }) = 1

\* C10: in the per-item enrichment of getPopularTVShows and
\* getWatchAtHomeContent an item whose detail request failed resolves to the
\* item as listed, an item whose detail request succeeded to the item with
\* the detail record spread over it; a failed detail request never makes the
\* request fail, and no settlement changes what another item resolved to.
C10_Resolved ==
    apc \in {"details", "done"} /\ ep \in {"getPopularTVShows", "getWatchAtHomeContent"} =>
        /\ Len(fetched) = Len(items) /\ Len(detailed) = Len(items)
        /\ \A i \in 1..Len(items) :
              /\ fetched[i] = "failed" => detailed[i] = items[i]
              /\ fetched[i] = "ok" => detailed[i] = Spread(items[i], TVDetail(items[i]))
              /\ fetched[i] = "pending" => detailed[i] = Unset
        /\ apc = "done" => AllSettled(fetched)

C10_Step ==
    apc = "details" =>
        /\ apc' \in {"details", "done"}
        /\ items' = items
        /\ \A j \in 1..Len(items) :
              fetched[j] # "pending" =>
                  fetched'[j] = fetched[j] /\ detailed'[j] = detailed[j]

C10_EnrichmentIsolation == []C10_Resolved /\ [][C10_Step]_vars

C10_Witness ==
    /\ ep = "getPopularTVShows" /\ apc = "done"
    /\ \E i, j \in 1..Len(items) :
          /\ fetched[i] = "failed" /\ fetched[j] = "ok"
          /\ detailed[i] = items[i] /\ "genres" \in DOMAIN detailed[j]

SomeCallPending == \E i \in 1..Len(calls) : calls[i].status = "pending"

NoExcludedGenreId(item) ==
    ~\E g \in 1..Len(item.genre_ids) :
        \E j \in 1..Len(EXCLUDED_GENRE_IDS) : item.genre_ids[g] = EXCLUDED_GENRE_IDS[j]

\* C11: in getPopularTVShows a show without an excluded genre whose detail
\* fetch failed is in the returned list, as it was listed.
C11_FailedShowDelivered ==
    (ep = "getPopularTVShows" /\ apc = "done") =>
        \A i \in 1..Len(items) :
            (fetched[i] = "failed" /\ NoExcludedGenreId(items[i])) =>
                \E k \in 1..Len(result) : result[k] = items[i]

\* an item carries an excluded genre id, in its listed genre_ids or in the
\* genres of its detail record
CarriesExcludedGenre(item) ==
    \/ "genre_ids" \in DOMAIN item /\ ~NoExcludedGenreId(item)
    \/ "genres" \in DOMAIN item /\ HasExcludedGenre(item)

\* C14: no item returned by getPopularTVShows or getWatchAtHomeContent has a
\* genre id of the exclusion set, whatever its media kind and whether or not
\* its detail fetch succeeded.
C14_NoExcludedGenreReturned ==
    (ep \in {"getPopularTVShows", "getWatchAtHomeContent"} /\ apc = "done") =>
        \A k \in 1..Len(result) : ~CarriesExcludedGenre(result[k])

\* C12 as worded: an aggregate endpoint has no outcome, neither a result nor
\* a failure, while one of its provider calls has not completed.
C12_NoOutcomeBeforeAllComplete ==
    apc \in {"details", "done", "failed"} => ~SomeCallPending

\* C12 (amended): all provider calls of an endpoint are started together
\* before the await; no merging, filtering or ranking step is performed and
\* no result produced until every call has completed successfully; a
\* failure is produced at the first rejected call, whether or not the other
\* calls have completed.
C12_Joined ==
    /\ apc = "sources" =>
          /\ Len(calls) = NumCalls(ep)
          /\ items = <<>> /\ fetched = <<>> /\ detailed = <<>>
          /\ ~SomeCallFailed
    /\ apc \in {"details", "done"} => AllOk(calls)

C12_Step ==
    /\ (apc = "idle" /\ apc' # "idle") =>
          /\ apc' = "sources"
          /\ Len(calls') = NumCalls(ep')
          /\ \A i \in 1..Len(calls') : calls'[i].status = "pending"
    /\ (apc = "sources" /\ apc' \in {"details", "done"}) => AllOk(calls')
    /\ (apc = "sources" /\ \E i \in 1..Len(calls') : calls'[i].status = "failed") =>
          apc' = "failed"
    /\ (apc = "sources" /\ apc' = "sources") => (items' = items /\ held' = held)

C12_Barrier == []C12_Joined /\ [][C12_Step]_vars

C12_Witness ==
    /\ ep = "getStreamingPlatformContent" /\ apc = "failed"
    /\ calls[1].status = "failed" /\ calls[2].status = "pending"

(***************************************************************************)
(* Claims about the deduplications.                                        *)
(***************************************************************************)
DedupKey(item) ==
    IF fnArgs.fn = "uniqueMovies" THEN <<item.id>> ELSE <<item.media_type, item.id>>

\* the positions of the input that hold the first occurrence of a key
FirstOccurrences(input) ==
    { i \in 1..Len(input) :
        \A j \in 1..(i - 1) : DedupKey(input[j]) # DedupKey(input[i]) }

\* the k-th smallest member of a set of positions
NthOf(positions, k) ==
    CHOOSE i \in positions : Cardinality({ j \in positions : j <= i }) = k

\* C13: the deduplicated list has no two items with the same key (id in
\* getUpcomingMovies, media_type and id in getWatchAtHomeContent), it is the
\* input's first occurrence of every key in the input's order, it is the
\* input when the input has no duplicate, and [] for the empty input.
C13_DedupFirstOccurrence ==
    fnResult # Unset =>
        LET input == fnArgs.list
            output == fnResult.value
            firsts == FirstOccurrences(input)
        IN  /\ \A a, b \in 1..Len(output) :
                  a # b => DedupKey(output[a]) # DedupKey(output[b])
            /\ Len(output) = Cardinality(firsts)
            /\ \A k \in 1..Len(output) : output[k] = input[NthOf(firsts, k)]
            /\ firsts = 1..Len(input) => output = input
            /\ input = <<>> => output = <<>>

C13_Witness ==
    /\ fnResult # Unset /\ fnArgs.fn = "uniqueMovies" /\ Len(fnArgs.list) = 3
    /\ fnArgs.list[1].id = fnArgs.list[3].id
    /\ fnArgs.list[1] # fnArgs.list[3]
    /\ fnArgs.list[2].id # fnArgs.list[1].id
    /\ fnResult.value = <<fnArgs.list[1], fnArgs.list[2]>>

(***************************************************************************)
(* Claims about the search ranking.                                        *)
(***************************************************************************)
\* the items of the two responses as searchMoviesAndTV combines them
RankFetched ==
    [i \in 1..Len(fnArgs.movieResults) |-> SearchMovie(fnArgs.movieResults[i])]
    \o [i \in 1..Len(fnArgs.tvResults) |-> SearchShow(fnArgs.tvResults[i])]

\* C15: searchMoviesAndTV returns the fetched items, movies before TV shows,
\* in non-increasing order of calculateSmartScore, items of equal score in
\* their fetch order; the list returned is the first 20 of that order, and
\* [] when both searches return nothing.
C15_StableRanking ==
    fnResult # Unset =>
        LET fetchedItems == RankFetched
            output == fnResult.value
            n == Len(fetchedItems)
            Score(i) == SmartScoreOf(fetchedItems[i], fnArgs.query)
            Place(i) == 1 + Cardinality({ j \in 1..n :
                                \/ Score(j) > Score(i)
                                \/ Score(j) = Score(i) /\ j < i })
        IN  /\ Len(output) = IF n < 20 THEN n ELSE 20
            /\ \A i \in 1..n : Place(i) <= 20 => output[Place(i)] = fetchedItems[i]
            /\ \A k \in 1..(Len(output) - 1) :
                  SmartScoreOf(output[k], fnArgs.query)
                      >= SmartScoreOf(output[k + 1], fnArgs.query)
            /\ n = 0 => output = <<>>

\* more than 20 items fetched, two of them of equal score returned in their
\* fetch order, a TV show ranked before a movie
C15_Witness ==
    /\ fnResult # Unset
    /\ Len(fnArgs.movieResults) + Len(fnArgs.tvResults) > 20
    /\ Len(fnResult.value) = 20
    /\ \E k \in 1..19 :
          /\ SmartScoreOf(fnResult.value[k], fnArgs.query)
                = SmartScoreOf(fnResult.value[k + 1], fnArgs.query)
          /\ fnResult.value[k].media_type = "movie"
          /\ fnResult.value[k + 1].media_type = "tv"
    /\ \E k \in 1..19 :
          /\ fnResult.value[k].media_type = "tv"
          /\ fnResult.value[k + 1].media_type = "movie"

(***************************************************************************)
(* Claims about calculateSmartScore.                                       *)
(***************************************************************************)
\* C16: with title, query, rating and vote count fixed, of two popularities
\* 0 <= p1 <= p2 the smaller never gives the greater score.
C16_MonotoneInPopularity ==
    ( /\ fnResult # Unset
      /\ fnArgs.popularity # Undefined /\ fnArgs.popularity2 # Undefined
      /\ fnArgs.popularity <= fnArgs.popularity2 )
    => fnResult.score <= fnResult.score2

\* C17: an item whose popularity is 0, missing or between 0 and 1 scores as
\* the same item with popularity 1, whose popularity term is 0.
C17_PopularityFloor ==
    (fnResult # Unset /\ (fnArgs.popularity = Undefined \/ fnArgs.popularity < 10))
    => /\ fnResult.score = calculateSmartScore(fnArgs.title, fnArgs.query, 10,
                                              fnArgs.rating, fnArgs.voteCount)
       /\ PopularityScore(fnArgs.popularity) = 0

\* the terms of the score of the call, in thousandths, each worked from the
\* arguments
ScoreTitleLower == ToLowerCase(fnArgs.title)
ScoreQueryLower == ToLowerCase(fnArgs.query)
WordTerm == WordMatches(ScoreTitleLower, ScoreQueryLower) * 5000
ExpectedTitleTerm ==
    (IF Includes(ScoreTitleLower, ScoreQueryLower) THEN 30000 ELSE 0)
    + (IF StartsWith(ScoreTitleLower, ScoreQueryLower) THEN 15000 ELSE 0)
    + (IF ScoreTitleLower = ScoreQueryLower THEN 20000 ELSE 0)
ExpectedPopularityTerm ==
    IF fnArgs.popularity = Undefined \/ fnArgs.popularity = 0
    THEN 0
    ELSE LnMilli(fnArgs.popularity) * 50
ExpectedQualityTerm ==
    IF fnArgs.rating = Undefined \/ fnArgs.voteCount = Undefined THEN 0
    ELSE IF fnArgs.voteCount > 100 THEN fnArgs.rating * 200 ELSE 0

\* C18: when rating, vote count or popularity is missing, calculateSmartScore
\* returns a finite score to which each missing field contributes 0, and
\* the search that ranks the item returns its list.
C18_MissingFieldsNeutral ==
    ( /\ fnResult # Unset
      /\ \/ fnArgs.popularity = Undefined
         \/ fnArgs.rating = Undefined
         \/ fnArgs.voteCount = Undefined )
    => /\ fnResult.score \in Int
       /\ fnResult.score = ExpectedPopularityTerm + ExpectedQualityTerm
                              + ExpectedTitleTerm + WordTerm
       /\ Len(fnResult.ranked) = 2
       /\ { fnResult.ranked[k].id : k \in 1..2 } = {1, 2}

C18_Witness ==
    /\ fnResult # Unset
    /\ fnArgs.popularity = Undefined /\ fnArgs.rating = Undefined
    /\ fnArgs.voteCount = Undefined /\ fnArgs.popularity2 = 100
    /\ fnArgs.title = TITLE_Airbenders
    /\ fnResult.score = 0
    /\ fnResult.ranked[1].id = 2
    /\ DOMAIN fnResult.ranked[2] = {"id", "title", "media_type", "poster_path"}

ExpectedWordPairs ==
    LET two == ScoreQueryLower = QUERY_the_avatar
    IN  CASE ScoreTitleLower = ToLowerCase(TITLE_Avatar) -> 1
          [] ScoreTitleLower = ToLowerCase(TITLE_Avatar2) -> 1
          [] ScoreTitleLower = ToLowerCase(TITLE_TheAvatar) -> IF two THEN 2 ELSE 1
          [] ScoreTitleLower = ToLowerCase(TITLE_Airbenders) -> 0
          [] ScoreTitleLower = ToLowerCase(TITLE_Avatars) -> 1
          [] ScoreTitleLower = ToLowerCase(TITLE_AvatarAvatar) -> 2

\* C21: the word-overlap bonus is 5 for every pair of a query word and a
\* title word, over all pairs of the whitespace-split lower-cased query and
\* title, of which one contains the other; a repeated word counts in every
\* pair it is part of, and the bonus is 0 when there is no such pair.
C21_WordOverlapBonus ==
    fnResult # Unset =>
        /\ fnResult.score
             - (PopularityScore(fnArgs.popularity)
                + QualityBonus(fnArgs.rating, fnArgs.voteCount)
                + ExpectedTitleTerm)
           = 5000 * ExpectedWordPairs
        /\ ExpectedWordPairs <= Len(SplitWhitespace(ScoreQueryLower))
                                  * Len(SplitWhitespace(ScoreTitleLower))

C21_Witness ==
    /\ fnResult # Unset
    /\ fnArgs.title = TITLE_AvatarAvatar /\ fnArgs.query = QUERY_avatar
    /\ fnArgs.popularity = Undefined /\ fnArgs.rating = Undefined
    /\ fnResult.score = 30000 + 15000 + 2 * 5000

\* the items i and j of the fetched list have the same popularity, rating
\* and vote count, the title of i is the query but for the case, and the
\* title of j contains the query without being equal to it
ExactAndContaining(fetchedItems, i, j) ==
    LET queryLower == ToLowerCase(fnArgs.query)
    IN  /\ \A f \in {"popularity", "vote_average", "vote_count"} :
              NumberField(fetchedItems[i], f) = NumberField(fetchedItems[j], f)
        /\ ToLowerCase(fetchedItems[i].title) = queryLower
        /\ ToLowerCase(fetchedItems[j].title) # queryLower
        /\ Includes(ToLowerCase(fetchedItems[j].title), queryLower)

\* item i of the fetched list is returned before item j, if j is returned
RankedAbove(fetchedItems, i, j) ==
    \A k \in 1..Len(fnResult.value) :
        fnResult.value[k] = fetchedItems[j] =>
            \E h \in 1..(k - 1) : fnResult.value[h] = fetchedItems[i]

\* how many more word-overlap pairs the title of j has than the title of i
MorePairs(fetchedItems, i, j) ==
    WordMatches(ToLowerCase(fetchedItems[j].title), ToLowerCase(fnArgs.query))
    - WordMatches(ToLowerCase(fetchedItems[i].title), ToLowerCase(fnArgs.query))

\* C22 as worded: an item whose title is the query but for the case is ranked
\* above every item of the same popularity, rating and vote count whose
\* title contains the query without being equal to it.
C22_ExactMatchAlwaysAbove ==
    fnResult # Unset =>
        \A i, j \in 1..Len(RankFetched) :
            ExactAndContaining(RankFetched, i, j) => RankedAbove(RankFetched, i, j)

\* C22 (amended): such an item is ranked above the other when the other
\* title has fewer than four more word-overlap pairs than it (fewer than
\* seven when the other title does not start with the query).
C22_ExactMatchAboveUnlessOverlap ==
    fnResult # Unset =>
        \A i, j \in 1..Len(RankFetched) :
            ( /\ ExactAndContaining(RankFetched, i, j)
              /\ MorePairs(RankFetched, i, j)
                   < IF StartsWith(ToLowerCase(RankFetched[j].title),
                                   ToLowerCase(fnArgs.query))
                     THEN 4 ELSE 7 )
            => RankedAbove(RankFetched, i, j)

\* 'Avatar' found as a TV show, after the movie 'Avatar: The Way of Water'
\* of the same popularity, is returned first
C22_Witness ==
    /\ fnResult # Unset /\ fnArgs.query = QUERY_avatar
    /\ Len(fnArgs.movieResults) = 1 /\ Len(fnArgs.tvResults) = 1
    /\ fnArgs.movieResults[1].title = TITLE_AvatarWater
    /\ fnArgs.tvResults[1].name = TITLE_Avatar
    /\ "popularity" \in DOMAIN fnArgs.movieResults[1]
    /\ fnResult.value[1].title = TITLE_Avatar
    /\ fnResult.value[2].title = TITLE_AvatarWater

(***************************************************************************)
(* searchYouTubeTrailer: an error in the cascade.                          *)
(***************************************************************************)
\* C24: when the search request of query k raises an error, the error is
\* swallowed (the content request does not fail), no further query is sent
\* (the list of issued queries stays at k, also ever after), and the request
\* returns with trailer = null, whatever the remaining queries would have
\* returned.
C24_ErrorEndsCascade ==
    [][ /\ (pc = "search" /\ lastResp' = SearchError) =>
              /\ issued' = issued
              /\ pc' = "done" /\ thrown' = Null
              /\ "trailer" \in DOMAIN data' /\ data'.trailer = Null
        /\ lastResp = SearchError =>
              /\ issued' = issued /\ pc' = "done"
              /\ data' = data /\ lastResp' = lastResp ]_vars

\* the first query of a TV request raised the error: queries 2..4 were never
\* sent, although responses with a positive-score result exist
C24_Witness ==
    /\ pc = "done" /\ kind = "tv" /\ lastResp = SearchError
    /\ Len(issued) = 1 /\ data.trailer = Null /\ thrown = Null
    /\ \E response \in SearchResponses : HasPositiveResult(response)

(***************************************************************************)
(* The sizes of the lists returned.                                        *)
(***************************************************************************)
\* the items of a list with the media type t
OfType(list, t) == { i \in 1..Len(list) : list[i].media_type = t }

\* C25: whatever the provider responses hold, getPopularTVShows,
\* getUpcomingMovies, getUpcomingTVShows, getTrendingAnime,
\* getStreamingPlatformContent and searchMoviesAndTV return at most 20 items;
\* getWatchAtHomeContent returns at most 40 items, of which at most 15 are
\* movies, at most 15 TV shows and at most 10 anime.
C25_ResultSizes ==
    fnResult # Unset =>
        IF fnArgs.endpoint = "getWatchAtHomeContent"
        THEN /\ Len(fnResult.value) <= 40
             /\ Cardinality(OfType(fnResult.value, "movie")) <= 15
             /\ Cardinality(OfType(fnResult.value, "tv")) <= 15
             /\ Cardinality(OfType(fnResult.value, "anime")) <= 10
        ELSE Len(fnResult.value) <= 20

\* three responses of 21 items each: getWatchAtHomeContent returns 15 movies
\* and 10 anime
C25_Witness ==
    /\ fnResult # Unset /\ fnArgs.endpoint = "getWatchAtHomeContent"
    /\ fnArgs.n = <<MaxBig, MaxBig, MaxBig>> /\ fnArgs.shuffle.reversed
    /\ Cardinality(OfType(fnResult.value, "movie")) = 15
    /\ Cardinality(OfType(fnResult.value, "anime")) = 10

(***************************************************************************)
(* ComingSoonTheatre: the views and the fetch.                             *)
(***************************************************************************)
\* how the last call of fetchUpcomingMovies that returned ended
LastOutcome == outcomes[Len(outcomes)]
LastFetchFailed == inflight = <<>> /\ outcomes # <<>> /\ ~LastOutcome.ok
LastFetchSucceeded == inflight = <<>> /\ outcomes # <<>> /\ LastOutcome.ok

\* C23: the error view and the empty view are distinct: after a fetch failed
\* (network error, status not OK, body not parsed, success false) the view is
\* the error view, with the message and the retry button, and not the empty
\* view; the empty view is shown only after a fetch succeeded with zero
\* movies; the retry button is offered only in the error view, with no
\* request in flight, so that at most one request is in flight at any time.
C23_ErrorAndEmptyDistinct ==
    /\ LastFetchFailed =>
          /\ View = "error" /\ RetryOffered
          /\ error = Str(LIT_FailedToLoad \o LastOutcome.message)
    /\ View = "error" => LastFetchFailed
    /\ View = "empty" => LastFetchSucceeded /\ Len(LastOutcome.data) = 0
    /\ RetryOffered => View = "error" /\ inflight = <<>>
    /\ Len(inflight) <= 1

\* the second fetch, started by a click on the button, answered with status 500
C23_Witness ==
    /\ LastFetchFailed /\ Len(outcomes) = 2
    /\ LastOutcome.message = LIT_HttpError \o <<"5", "0", "0">>
    /\ View = "error"

\* C26: when no call is in flight after the mount, loading is false and
\* either the last call succeeded, error is null and the stored list is the
\* first at most 20 movies of its response, or it failed, error is set and the
\* stored list is empty; a step that starts a fetch leaves loading = true and
\* error = null, a step in which a call returns leaves loading = false; and,
\* the requests being settled by the browser, a call in flight leads to
\* loading = false.
C26_FetchSettles ==
    /\ [](mounted /\ inflight = <<>> =>
            /\ loading = FALSE /\ outcomes # <<>>
            /\ LastOutcome.ok =>
                  /\ error = Null
                  /\ upcomingMovies = Take(LastOutcome.data, 20)
                  /\ Len(upcomingMovies) <= 20
            /\ ~LastOutcome.ok =>
                  /\ error # Null /\ error.text # <<>>
                  /\ upcomingMovies = <<>>)
    /\ [][ /\ Len(inflight') > Len(inflight) => loading' = TRUE /\ error' = Null
           /\ Len(outcomes') > Len(outcomes) => loading' = FALSE ]_vars
    /\ (inflight # <<>>) ~> (loading = FALSE)

\* the retry answered with 21 movies: the first 20 are stored
C26_Witness ==
    /\ LastFetchSucceeded /\ Len(outcomes) = 2
    /\ Len(LastOutcome.data) = MaxMovies /\ Len(upcomingMovies) = 20
    /\ loading = FALSE /\ error = Null

=============================================================================
